---------------------------- MODULE Spec2Model ----------------------------
(***************************************************************************)
(* plugin-solcex-bd: the token scoring engine (six factor scorers, the     *)
(* catalyst detector, the composite aggregator), the wallet adjustment     *)
(* merger, the wallet forensics rules and lookups and the market-data      *)
(* retrieval of src/src/services/helius.ts, and the action handlers of     *)
(* src/src/actions.                                                        *)
(*                                                                         *)
(* Conventions.                                                            *)
(*  - An optional field (a TypeScript `x?: T`, read with `?.` and `??`) is  *)
(*    a sequence: <<>> when absent, <<v>> when present.                    *)
(*  - USD amounts, counts and percentages are integers.                    *)
(*  - Timestamps are carried in seconds: the source's millisecond values   *)
(*    divided by 1000, so that 181 days fit a 32-bit integer.              *)
(*  - Strings are ASCII: emoji prefixes are dropped and the em dash is     *)
(*    written "-". Text with an interpolated number is a tuple of its      *)
(*    parts.                                                               *)
(*  - A TokenScore object holds a reference (an index into `heap`) to its  *)
(*    catalysts array, as a JavaScript object does.                        *)
(***************************************************************************)
EXTENDS Integers, Sequences, FiniteSets, TLC

VARIABLES
    now,      \* the wall clock read by Date.now(), in seconds
    heap,     \* the catalysts arrays allocated so far: heap[r] is array r
    objs,     \* the TokenScore objects created so far, in creation order
    hist,     \* one record per completed call: arguments and returned value
    input,    \* the arguments of one call of an exported pure function
    output,   \* what that call returned (<<>> before the call)
    phase,    \* where the running async function stands
    net,      \* the remote requests of that function: net[r] is the state of r
    said,     \* the messages handed to the handler's callback, in order
    settled   \* how the async function's promise settled (<<>> while pending)

vars == <<now, heap, objs, hist, input, output, phase, net, said, settled>>

(***************************************************************************)
(* Optional values                                                         *)
(***************************************************************************)
Absent == <<>>

Some(v) == <<v>>

\* `o ?? d`
OrElse(o, d) == IF o = Absent THEN d ELSE o[1]

Opt(S) == {Absent} \cup {Some(v) : v \in S}

\* no async function is running
Idle == phase = "idle" /\ net = <<>> /\ said = <<>> /\ settled = Absent

Max(a, b) == IF a >= b THEN a ELSE b

Min(a, b) == IF a <= b THEN a ELSE b

RECURSIVE SumBy(_, _)
\* xs.reduce((sum, x) => sum + f(x), 0) with f already applied: the sum of a
\* sequence of integers
SumBy(xs, n) == IF n = 0 THEN 0 ELSE SumBy(xs, n - 1) + xs[n]

Sum(xs) == SumBy(xs, Len(xs))

(***************************************************************************)
(* Helpers of the market-data service                                      *)
(***************************************************************************)
\* 1000 * 60 * 60 * 24 milliseconds, in seconds
DaySeconds == 60 * 60 * 24

\* faulty variant of getTokenAgeDays: the elapsed time is not turned into whole days
getTokenAgeDaysNoFloor(pair, clock) ==
    IF pair.pairCreatedAt = Absent \/ pair.pairCreatedAt = Some(0)
    THEN -1
    ELSE clock - pair.pairCreatedAt[1]

\* `!pair.pairCreatedAt` holds for an absent timestamp and for 0
getTokenAgeDays(pair, clock) ==
    IF pair.pairCreatedAt = Absent \/ pair.pairCreatedAt = Some(0)
    THEN -1
    ELSE (clock - pair.pairCreatedAt[1]) \div DaySeconds

\* `if (xs?.length) count += xs.length`: an absent or empty list adds nothing
countSocials(pair) == OrElse(pair.websites, 0) + OrElse(pair.socials, 0)

(***************************************************************************)
(* Weight configuration                                                    *)
(***************************************************************************)
\* faulty variant of WEIGHTS: the liquidity weight raised without the scorer's
\* hard-coded maxScore
WEIGHTSLiquidity30 ==
    [liquidity |-> 30, marketCap |-> 20, volume24h |-> 20,
     social |-> 15, age |-> 10, team |-> 10]

WEIGHTS ==
    [liquidity |-> 25, marketCap |-> 20, volume24h |-> 20,
     social |-> 15, age |-> 10, team |-> 10]

(***************************************************************************)
(* Factor scorers                                                          *)
(***************************************************************************)
Breakdown(category, weight, score, maxScore, value, details) ==
    [category |-> category, weight |-> weight, score |-> score,
     maxScore |-> maxScore, value |-> value, details |-> details]

\* faulty variant of scoreLiquidity: strict instead of inclusive lower bounds
scoreLiquidityStrict(pair) ==
    LET usd == OrElse(pair.liquidityUsd, 0)
        tier == IF usd > 500000 THEN <<25, "Excellent liquidity">>
                ELSE IF usd > 200000 THEN <<20, "Good liquidity">>
                ELSE IF usd > 100000 THEN <<15, "Acceptable liquidity">>
                ELSE IF usd > 50000 THEN <<10, "Low liquidity - higher risk">>
                ELSE <<5, "Very low liquidity - caution">>
    IN  Breakdown("Liquidity", WEIGHTS.liquidity, tier[1], 25,
                  <<"$", usd>>, <<tier[2]>>)

scoreLiquidity(pair) ==
    LET usd == OrElse(pair.liquidityUsd, 0)
        tier == IF usd >= 500000 THEN <<25, "Excellent liquidity">>
                ELSE IF usd >= 200000 THEN <<20, "Good liquidity">>
                ELSE IF usd >= 100000 THEN <<15, "Acceptable liquidity">>
                ELSE IF usd >= 50000 THEN <<10, "Low liquidity - higher risk">>
                ELSE <<5, "Very low liquidity - caution">>
    IN  Breakdown("Liquidity", WEIGHTS.liquidity, tier[1], 25,
                  <<"$", usd>>, <<tier[2]>>)

\* faulty variant of scoreMarketCap: the scores of the 1M and the 500k tier swapped
scoreMarketCapSwapped(pair) ==
    LET mcap == OrElse(pair.marketCap, OrElse(pair.fdv, 0))
        tier == IF mcap >= 10000000 THEN <<20, "Strong market cap">>
                ELSE IF mcap >= 1000000 THEN <<12, "Good market cap">>
                ELSE IF mcap >= 500000 THEN <<16, "Acceptable market cap">>
                ELSE IF mcap >= 100000 THEN <<8, "Small cap - early stage">>
                ELSE <<4, "Micro cap - high risk">>
    IN  Breakdown("Market Cap", 20, tier[1], 20, <<"$", mcap>>, <<tier[2]>>)

\* `pair.marketCap ?? pair.fdv ?? 0`
scoreMarketCap(pair) ==
    LET mcap == OrElse(pair.marketCap, OrElse(pair.fdv, 0))
        tier == IF mcap >= 10000000 THEN <<20, "Strong market cap">>
                ELSE IF mcap >= 1000000 THEN <<16, "Good market cap">>
                ELSE IF mcap >= 500000 THEN <<12, "Acceptable market cap">>
                ELSE IF mcap >= 100000 THEN <<8, "Small cap - early stage">>
                ELSE <<4, "Micro cap - high risk">>
    IN  Breakdown("Market Cap", WEIGHTS.marketCap, tier[1], 20,
                  <<"$", mcap>>, <<tier[2]>>)

scoreVolume(pair) ==
    LET vol == OrElse(pair.volH24, 0)
        tier == IF vol >= 1000000 THEN <<20, "Excellent volume">>
                ELSE IF vol >= 500000 THEN <<16, "Good volume">>
                ELSE IF vol >= 100000 THEN <<12, "Moderate volume">>
                ELSE IF vol >= 50000 THEN <<8, "Low volume">>
                ELSE <<4, "Very low volume">>
    IN  Breakdown("Volume 24h", WEIGHTS.volume24h, tier[1], 20,
                  <<"$", vol>>, <<tier[2]>>)

\* faulty variant of scoreSocial: a snapshot without social links scores nothing
scoreSocialNoneZero(pair) ==
    LET platforms == countSocials(pair)
        tier == IF platforms >= 4
                THEN <<15, <<platforms, " platforms - strong presence">> >>
                ELSE IF platforms >= 2
                THEN <<10, <<platforms, " platforms - moderate presence">> >>
                ELSE IF platforms >= 1
                THEN <<6, <<platforms, " platform - minimal presence">> >>
                ELSE <<0, <<"No social links found">> >>
    IN  Breakdown("Social", WEIGHTS.social, tier[1], 15,
                  <<platforms, " platforms">>, tier[2])

scoreSocial(pair) ==
    LET platforms == countSocials(pair)
        tier == IF platforms >= 4
                THEN <<15, <<platforms, " platforms - strong presence">> >>
                ELSE IF platforms >= 2
                THEN <<10, <<platforms, " platforms - moderate presence">> >>
                ELSE IF platforms >= 1
                THEN <<6, <<platforms, " platform - minimal presence">> >>
                ELSE <<2, <<"No social links found">> >>
    IN  Breakdown("Social", WEIGHTS.social, tier[1], 15,
                  <<platforms, " platforms">>, tier[2])

scoreAge(pair, clock) ==
    LET days == getTokenAgeDays(pair, clock)
        tier == IF days > 180 THEN <<10, <<days, " days - established">> >>
                ELSE IF days > 30 THEN <<8, <<days, " days - moderate history">> >>
                ELSE IF days > 7 THEN <<5, <<days, " days - new">> >>
                ELSE IF days >= 0
                THEN <<3, <<days, " days - very new, higher risk">> >>
                ELSE <<2, <<"Age unknown">> >>
    IN  Breakdown("Age", WEIGHTS.age, tier[1], 10,
                  IF days >= 0 THEN <<days, " days">> ELSE <<"Unknown">>,
                  tier[2])

scoreTeam(pair) ==
    LET websites == OrElse(pair.websites, 0)
        socials == OrElse(pair.socials, 0)
        tier == IF websites >= 1 /\ socials >= 2
                THEN <<10, "Website + multiple socials - good transparency">>
                ELSE IF websites >= 1 \/ socials >= 2
                THEN <<7, "Some online presence">>
                ELSE IF socials >= 1 THEN <<4, "Minimal online presence">>
                ELSE <<2, "No verifiable team info">>
    IN  Breakdown("Team Transparency", WEIGHTS.team, tier[1], 10,
                  <<websites, " sites, ", socials, " socials">>, <<tier[2]>>)

(***************************************************************************)
(* Catalyst detection                                                      *)
(***************************************************************************)
Catalyst(name, points, reason) ==
    [name |-> name, points |-> points, reason |-> reason]

\* (a / b).toFixed(1), in tenths
Tenths(a, b) == (20 * a + b) \div (2 * b)

\* the entries pushed by one `if`: the entry when the guard holds, else none
PushIf(guard, entry) == IF guard THEN <<entry>> ELSE <<>>

\* faulty variant of detectCatalysts: the ratio rules without their operand guards
detectCatalystsUnguarded(pair) ==
    LET vol24h == OrElse(pair.volH24, 0)
        vol6h == OrElse(pair.volH6, 0)
        priceChange == OrElse(pair.priceChangeH24, 0)
        buys24h == OrElse(pair.buysH24, 0)
        sells24h == OrElse(pair.sellsH24, 0)
        socials == countSocials(pair)
    IN  PushIf(2 * vol6h > vol24h,
               Catalyst("Volume Momentum", 5,
                        <<"6h volume >50% of 24h - active momentum">>))
        \o PushIf(buys24h > 2 * sells24h,
                  Catalyst("Buy Pressure", 3, <<"Buy/sell ratio x">>))
        \o PushIf(socials >= 4,
                  Catalyst("Multi-Platform Presence", 5,
                           <<socials, " social platforms active">>))
        \o PushIf(priceChange < -30,
                  Catalyst("Price Dump", -10, <<priceChange, "% drop in 24h">>))
        \o PushIf(sells24h > 3 * buys24h,
                  Catalyst("Sell Pressure", -5, <<"Sell/buy ratio x - dump risk">>))

\* faulty variant of detectCatalysts: Sell Pressure from a sell/buy ratio above
\* one third instead of above 3
detectCatalystsSellAboveThird(pair) ==
    LET vol24h == OrElse(pair.volH24, 0)
        vol6h == OrElse(pair.volH6, 0)
        priceChange == OrElse(pair.priceChangeH24, 0)
        buys24h == OrElse(pair.buysH24, 0)
        sells24h == OrElse(pair.sellsH24, 0)
        socials == countSocials(pair)
    IN  PushIf(vol6h > 0 /\ vol24h > 0 /\ 2 * vol6h > vol24h,
               Catalyst("Volume Momentum", 5,
                        <<"6h volume >50% of 24h - active momentum">>))
        \o PushIf(buys24h > 0 /\ sells24h > 0 /\ buys24h > 2 * sells24h,
                  Catalyst("Buy Pressure", 3,
                           <<"Buy/sell ratio ", Tenths(buys24h, sells24h), "x">>))
        \o PushIf(socials >= 4,
                  Catalyst("Multi-Platform Presence", 5,
                           <<socials, " social platforms active">>))
        \o PushIf(priceChange < -30,
                  Catalyst("Price Dump", -10, <<priceChange, "% drop in 24h">>))
        \o PushIf(buys24h > 0 /\ sells24h > 0 /\ 3 * sells24h > buys24h,
                  Catalyst("Sell Pressure", -5,
                           <<"Sell/buy ratio ", Tenths(sells24h, buys24h),
                             "x - dump risk">>))

\* For positive integers a, b: a / b > k  iff  a > k * b, and
\* a / b > 0.5  iff  2 * a > b.
detectCatalysts(pair) ==
    LET vol24h == OrElse(pair.volH24, 0)
        vol6h == OrElse(pair.volH6, 0)
        priceChange == OrElse(pair.priceChangeH24, 0)
        buys24h == OrElse(pair.buysH24, 0)
        sells24h == OrElse(pair.sellsH24, 0)
        socials == countSocials(pair)
    IN  PushIf(vol6h > 0 /\ vol24h > 0 /\ 2 * vol6h > vol24h,
               Catalyst("Volume Momentum", 5,
                        <<"6h volume >50% of 24h - active momentum">>))
        \o PushIf(buys24h > 0 /\ sells24h > 0 /\ buys24h > 2 * sells24h,
                  Catalyst("Buy Pressure", 3,
                           <<"Buy/sell ratio ", Tenths(buys24h, sells24h), "x">>))
        \o PushIf(socials >= 4,
                  Catalyst("Multi-Platform Presence", 5,
                           <<socials, " social platforms active">>))
        \o PushIf(priceChange < -30,
                  Catalyst("Price Dump", -10, <<priceChange, "% drop in 24h">>))
        \o PushIf(buys24h > 0 /\ sells24h > 0 /\ sells24h > 3 * buys24h,
                  Catalyst("Sell Pressure", -5,
                           <<"Sell/buy ratio ", Tenths(sells24h, buys24h),
                             "x - dump risk">>))

(***************************************************************************)
(* Score to action                                                         *)
(***************************************************************************)
\* faulty variant of getAction: HOT only above 85
getActionHotAbove85(score) ==
    IF score > 85 THEN "HOT"
    ELSE IF score >= 70 THEN "QUALIFIED"
    ELSE IF score >= 50 THEN "WATCH"
    ELSE "SKIP"

getAction(score) ==
    IF score >= 85 THEN "HOT"
    ELSE IF score >= 70 THEN "QUALIFIED"
    ELSE IF score >= 50 THEN "WATCH"
    ELSE "SKIP"

getRecommendation(action) ==
    CASE action = "HOT" ->
           "HOT - Immediate outreach + wallet forensics recommended"
      [] action = "QUALIFIED" ->
           "QUALIFIED - Priority queue, run wallet forensics"
      [] action = "WATCH" -> "WATCH - Monitor for 48 hours"
      [] action = "SKIP" -> "SKIP - Below threshold, log only"

(***************************************************************************)
(* scoreToken                                                              *)
(***************************************************************************)
Points(cs) == [k \in 1..Len(cs) |-> cs[k].points]

Scores(bs) == [k \in 1..Len(bs) |-> bs[k].score]

\* faulty variant of Clamp: the upper limit is missing
ClampLowerOnly(x) == Max(0, x)

Clamp(x) == Max(0, Min(100, x))

TokenScore(pair, totalScore, breakdown, catalysts, clock) ==
    [contractAddress |-> pair.baseAddress,
     chain |-> pair.chainId,
     totalScore |-> totalScore,
     maxScore |-> 100,
     action |-> getAction(totalScore),
     breakdown |-> breakdown,
     catalysts |-> catalysts,
     recommendation |-> getRecommendation(getAction(totalScore)),
     scoredAt |-> clock,
     pairAddress |-> pair.pairAddress]

\* The value scoreToken returns; `catalysts` is a freshly built array, given
\* here by its content.
scoreToken(pair, clock) ==
    LET breakdown == <<scoreLiquidity(pair), scoreMarketCap(pair),
                       scoreVolume(pair), scoreSocial(pair),
                       scoreAge(pair, clock), scoreTeam(pair)>>
        baseScore == Sum(Scores(breakdown))
        catalysts == detectCatalysts(pair)
        catalystTotal == Sum(Points(catalysts))
        totalScore == Clamp(baseScore + catalystTotal)
    IN  TokenScore(pair, totalScore, breakdown, catalysts, clock)

(***************************************************************************)
(* applyWalletAdjustment                                                   *)
(***************************************************************************)
WalletFlagDetail(flag, impact, reason) ==
    [flag |-> flag, impact |-> impact, reason |-> reason]

\* faulty variant of WalletCatalysts: the entries come out in reverse flag order
WalletCatalystsReversed(flags) ==
    [k \in 1..Len(flags) |->
        Catalyst("Wallet: " \o flags[Len(flags) + 1 - k].flag,
                 flags[Len(flags) + 1 - k].impact,
                 flags[Len(flags) + 1 - k].reason)]

\* one catalyst-shaped entry per wallet flag, in flag order
WalletCatalysts(flags) ==
    [k \in 1..Len(flags) |->
        Catalyst("Wallet: " \o flags[k].flag, flags[k].impact, flags[k].reason)]

HasFlag(flags, name) == \E k \in 1..Len(flags) : flags[k].flag = name

\* the value of an object: its fields, with the content of its catalysts array
Deref(obj, store) == [obj EXCEPT !.catalysts = store[obj.catalysts]]

\* faulty variant of applyWalletAdjustment: no auto-reject of a mixer-funded deployer
applyWalletAdjustmentNoOverride(tokenScore, walletResult, store) ==
    LET total == Clamp(tokenScore.totalScore + walletResult.scoreAdjustment)
    IN  [ret |-> [tokenScore EXCEPT
                    !.totalScore = total,
                    !.action = getAction(total),
                    !.recommendation = getRecommendation(getAction(total))],
         store |-> [store EXCEPT ![tokenScore.catalysts] =
                                    @ \o WalletCatalysts(walletResult.flags)]]

\* faulty variant of applyWalletAdjustment: the recalculated total is not clamped
applyWalletAdjustmentNoClamp(tokenScore, walletResult, store) ==
    LET total == tokenScore.totalScore + walletResult.scoreAdjustment
    IN  [ret |-> IF HasFlag(walletResult.flags, "MIXER_REJECT")
                 THEN [tokenScore EXCEPT
                         !.totalScore = 0,
                         !.action = "SKIP",
                         !.recommendation =
                            "AUTO-REJECTED - Deployer funded via mixer/tornado"]
                 ELSE [tokenScore EXCEPT
                         !.totalScore = total,
                         !.action = getAction(total),
                         !.recommendation = getRecommendation(getAction(total))],
         store |-> [store EXCEPT ![tokenScore.catalysts] =
                                    @ \o WalletCatalysts(walletResult.flags)]]

\* `tokenScore` is an object whose `catalysts` field is a reference into
\* `store`. `{ ...tokenScore }` copies the fields, the reference included, so
\* `adjusted.catalysts.push(..)` appends to the one array that the argument
\* and the returned object both hold. Returns the new object and the store
\* after the call.
applyWalletAdjustment(tokenScore, walletResult, store) ==
    LET adjustment == walletResult.scoreAdjustment
        pushed == [store EXCEPT ![tokenScore.catalysts] =
                                   @ \o WalletCatalysts(walletResult.flags)]
        total == Clamp(tokenScore.totalScore + adjustment)
        recalculated ==
            [tokenScore EXCEPT
               !.totalScore = total,
               !.action = getAction(total),
               !.recommendation = getRecommendation(getAction(total))]
        adjusted ==
            IF HasFlag(walletResult.flags, "MIXER_REJECT")
            THEN [recalculated EXCEPT
                    !.totalScore = 0,
                    !.action = "SKIP",
                    !.recommendation =
                       "AUTO-REJECTED - Deployer funded via mixer/tornado"]
            ELSE recalculated
    IN  [ret |-> adjusted, store |-> pushed]

(***************************************************************************)
(* Bounds and input sets                                                   *)
(***************************************************************************)
\* calls of scoreToken / applyWalletAdjustment in one run of Spec
MaxCalls == 3

\* clock ticks (of one second) in one run of Spec
MaxTicks == 2

\* wallet flags in one WalletForensicsResult handed to the merger
MaxFlags == 2

\* 24h buy / sell transaction counts range over 0..MaxTxns
MaxTxns == 4

\* small 6h / 24h volumes range over 0..MaxVol
MaxVol == 2

\* website links range over 0..MaxSites, social links over 0..MaxLinks
MaxSites == 1

MaxLinks == 4

\* the instant every snapshot with a creation timestamp was created
Created == 1000 * DaySeconds

\* a snapshot in which the source omitted every optional field
BasePair ==
    [pairAddress |-> "pairA", chainId |-> "solana", baseAddress |-> "tokenA",
     liquidityUsd |-> Absent, marketCap |-> Absent, fdv |-> Absent,
     volH24 |-> Absent, volH6 |-> Absent, priceChangeH24 |-> Absent,
     buysH24 |-> Absent, sellsH24 |-> Absent, pairCreatedAt |-> Absent,
     websites |-> Absent, socials |-> Absent]

\* spec.md, Scenario A (no catalysts)
ScenarioA ==
    [BasePair EXCEPT !.liquidityUsd = Some(600000), !.marketCap = Some(50000),
                     !.volH24 = Some(40000), !.pairCreatedAt = Some(Created)]

\* spec.md, Scenario B
ScenarioB ==
    [BasePair EXCEPT !.pairAddress = "pairB", !.baseAddress = "tokenB",
                     !.liquidityUsd = Some(600000), !.marketCap = Some(12000000),
                     !.volH24 = Some(1200000), !.buysH24 = Some(100),
                     !.sellsH24 = Some(10), !.pairCreatedAt = Some(Created),
                     !.websites = Some(1), !.socials = Some(3)]

\* the values on both sides of every tier threshold
LiquidityValues ==
    {0, 49999, 50000, 99999, 100000, 199999, 200000, 499999, 500000, 600000}

MarketCapValues ==
    {0, 99999, 100000, 499999, 500000, 999999, 1000000, 9999999, 10000000}

VolumeValues ==
    {0, 49999, 50000, 99999, 100000, 499999, 500000, 999999, 1000000}

AgeDayValues == {0, 7, 8, 30, 31, 180, 181, 200}

\* instants at the first and the last second of each day of age, and two
\* instants before the creation itself
Instants ==
    {Created + d * DaySeconds + e : d \in AgeDayValues, e \in {0, DaySeconds - 1}}
    \cup {Created - 1, Created - DaySeconds - 1}

\* snapshots that vary one factor's metric around a base snapshot
FactorPairs ==
    UNION {
      {[b EXCEPT !.liquidityUsd = o] : o \in Opt(LiquidityValues)}
      \cup {[b EXCEPT !.marketCap = m, !.fdv = f] :
               m \in Opt(MarketCapValues), f \in Opt({50000, 12000000})}
      \cup {[b EXCEPT !.volH24 = o] : o \in Opt(VolumeValues)}
      : b \in {BasePair, ScenarioA, ScenarioB} }

AgePairs ==
    {[b EXCEPT !.pairCreatedAt = c] :
        b \in {BasePair, ScenarioA, ScenarioB}, c \in Opt({0, Created})}

\* snapshots that vary everything the catalyst rules, the social scorer and
\* the team scorer read
CatalystPairs ==
    {[ScenarioB EXCEPT !.volH24 = v24, !.volH6 = v6, !.buysH24 = b,
                       !.sellsH24 = sl, !.priceChangeH24 = pc,
                       !.websites = w, !.socials = sc] :
        v24 \in Opt(0..MaxVol \cup {1200000}),
        v6 \in Opt(0..MaxVol \cup {600000, 600001}),
        b \in Opt(0..MaxTxns), sl \in Opt(0..MaxTxns),
        pc \in Opt({-31, -30, 10}),
        w \in Opt(0..MaxSites), sc \in Opt(0..MaxLinks)}

FlagDetails ==
    {WalletFlagDetail("MIXER_REJECT", -100, <<"Funded by known mixer: 1mixer11...">>),
     WalletFlagDetail("INSTITUTIONAL", 8,
                      <<"Linked to known institutional/VC wallet">>),
     WalletFlagDetail("SERIAL_CREATOR", -5,
                      <<"Created 8 tokens - serial creator pattern">>),
     WalletFlagDetail("DUMP_ALERT", -15,
                      <<"80% sell transactions in last 7 days">>),
     WalletFlagDetail("DUMP_ALERT", -10,
                      <<"60% sell transactions in last 7 days">>),
     WalletFlagDetail("NET_POSITIVE", 2, <<"5.00 SOL + 2 tokens held">>),
     WalletFlagDetail("WALLET_VERIFIED", 3, <<"No negative signals detected">>)}

RECURSIVE SeqsUpTo(_, _)
\* the sequences over S of length at most n
SeqsUpTo(S, n) ==
    IF n = 0 THEN {<<>>}
    ELSE LET shorter == SeqsUpTo(S, n - 1)
         IN  shorter \cup {Append(q, x) : q \in shorter, x \in S}

WalletResult(flags, scoreAdjustment) ==
    [flags |-> flags, scoreAdjustment |-> scoreAdjustment]

\* any flag list with any integer adjustment: the merger takes both from its
\* caller and does not relate them
WalletResults ==
    {WalletResult(f, a) :
        f \in SeqsUpTo(FlagDetails, MaxFlags), a \in {-150, -100, -20, -3, 0, 13, 150}}

\* the TokenScore of Scenario B carrying any total in 0..100
BaseScores ==
    {[scoreToken(ScenarioB, Created) EXCEPT
        !.totalScore = t,
        !.action = getAction(t),
        !.recommendation = getRecommendation(getAction(t))] : t \in 0..100}

\* the forensics results merged in Spec: Scenario C, Scenario D, a clean
\* wallet, and a mixer flag among positive flags with a positive adjustment
SpecWallets ==
    {WalletResult(<<WalletFlagDetail("MIXER_REJECT", -100,
                                     <<"Funded by known mixer: 1mixer11...">>)>>, -100),
     WalletResult(<<WalletFlagDetail("SERIAL_CREATOR", -5,
                      <<"Created 8 tokens - serial creator pattern">>),
                    WalletFlagDetail("NET_POSITIVE", 2,
                      <<"5.00 SOL + 2 tokens held">>)>>, -3),
     WalletResult(<<WalletFlagDetail("WALLET_VERIFIED", 3,
                      <<"No negative signals detected">>)>>, 3),
     WalletResult(<<WalletFlagDetail("INSTITUTIONAL", 8,
                      <<"Linked to known institutional/VC wallet">>),
                    WalletFlagDetail("MIXER_REJECT", -100,
                      <<"Funded by known mixer: 1mixer11...">>)>>, 8)}

\* the snapshots scored in Spec: without a creation timestamp, with one, and
\* with a creation timestamp of 0
SpecPairs ==
    {BasePair, ScenarioA, ScenarioB, [ScenarioA EXCEPT !.pairCreatedAt = Some(0)]}

\* the last second at which ScenarioA and ScenarioB are 180 days old
SpecStart == Created + 181 * DaySeconds - 1

(***************************************************************************)
(* Spec: the objects a caller holds. scoreToken creates a TokenScore with  *)
(* a fresh catalysts array, applyWalletAdjustment derives an object from   *)
(* an existing one, and the clock advances in between.                     *)
(***************************************************************************)
Call(fn, pair, arg, wallet, before, after, ret, at) ==
    [fn |-> fn, pair |-> pair, arg |-> arg, wallet |-> wallet,
     before |-> before, after |-> after, ret |-> ret, at |-> at]

Init ==
    /\ Idle
    /\ now = SpecStart
    /\ heap = <<>>
    /\ objs = <<>>
    /\ hist = <<>>
    /\ input = Absent
    /\ output = Absent

ScoreToken(pair) ==
    /\ Len(hist) < MaxCalls
    /\ LET r == scoreToken(pair, now)
       IN  /\ heap' = Append(heap, r.catalysts)
           /\ objs' = Append(objs, [r EXCEPT !.catalysts = Len(heap) + 1])
           /\ hist' = Append(hist, Call("scoreToken", Some(pair), 0, Absent,
                                        Absent, Absent, r, now))
    /\ UNCHANGED <<now, input, output, phase, net, said, settled>>

ApplyWalletAdjustment(i, walletResult) ==
    /\ Len(hist) < MaxCalls
    /\ LET r == applyWalletAdjustment(objs[i], walletResult, heap)
       IN  /\ heap' = r.store
           /\ objs' = Append(objs, r.ret)
           /\ hist' = Append(hist,
                  Call("applyWalletAdjustment", Absent, i, Some(walletResult),
                       Some(Deref(objs[i], heap)), Some(Deref(objs[i], r.store)),
                       Deref(r.ret, r.store), now))
    /\ UNCHANGED <<now, input, output, phase, net, said, settled>>

Tick ==
    /\ now < SpecStart + MaxTicks
    /\ now' = now + 1
    /\ UNCHANGED <<heap, objs, hist, input, output, phase, net, said, settled>>

Next ==
    \/ \E pair \in SpecPairs : ScoreToken(pair)
    \/ \E i \in 1..Len(objs), w \in SpecWallets : ApplyWalletAdjustment(i, w)
    \/ Tick

Spec == Init /\ [][Next]_vars

(***************************************************************************)
(* SpecPure: one call of an exported function on an input drawn from the   *)
(* bounded sets above.                                                     *)
(***************************************************************************)
ScoreInput(pair) == [fn |-> "scoreToken", pair |-> pair]

MergeInput(tokenScore, walletResult) ==
    [fn |-> "applyWalletAdjustment", tokenScore |-> tokenScore,
     walletResult |-> walletResult]

InitPure ==
    /\ Idle
    /\ heap = <<>>
    /\ objs = <<>>
    /\ hist = <<>>
    /\ output = Absent
    /\ \/ /\ now = Created + 200 * DaySeconds
          /\ input \in {Some(ScoreInput(p)) : p \in FactorPairs \cup CatalystPairs}
       \/ /\ now \in Instants
          /\ input \in {Some(ScoreInput(p)) : p \in AgePairs}
       \/ /\ now = Created + 200 * DaySeconds
          /\ input \in {Some(MergeInput(t, w)) : t \in BaseScores, w \in WalletResults}

CallScoreToken ==
    /\ input # Absent /\ output = Absent
    /\ input[1].fn = "scoreToken"
    /\ output' = Some(scoreToken(input[1].pair, now))
    /\ UNCHANGED <<now, heap, objs, hist, input, phase, net, said, settled>>

\* the argument is placed in a store of its own; the returned object is
\* read back once the call is over
CallApplyWalletAdjustment ==
    /\ input # Absent /\ output = Absent
    /\ input[1].fn = "applyWalletAdjustment"
    /\ LET store == <<input[1].tokenScore.catalysts>>
           arg == [input[1].tokenScore EXCEPT !.catalysts = 1]
           r == applyWalletAdjustment(arg, input[1].walletResult, store)
       IN  output' = Some(Deref(r.ret, r.store))
    /\ UNCHANGED <<now, heap, objs, hist, input, phase, net, said, settled>>

NextPure == CallScoreToken \/ CallApplyWalletAdjustment

SpecPure == InitPure /\ [][NextPure]_vars

(***************************************************************************)
(* Properties                                                              *)
(***************************************************************************)
\* the call of SpecPure has returned, and it was a call of `fn`
Returned(fn) == input # Absent /\ output # Absent /\ input[1].fn = fn

AutoRejected == "AUTO-REJECTED - Deployer funded via mixer/tornado"

\* C1: whenever the wallet result handed to applyWalletAdjustment holds a
\* MIXER_REJECT flag, the returned score has totalScore 0, action SKIP and the
\* fixed auto-reject recommendation, whatever the base total, the
\* scoreAdjustment and the other flags are.
C1_MixerOverride ==
    (Returned("applyWalletAdjustment")
        /\ HasFlag(input[1].walletResult.flags, "MIXER_REJECT"))
    => /\ output[1].totalScore = 0
       /\ output[1].action = "SKIP"
       /\ output[1].recommendation = AutoRejected

\* C1 witness: a base of 100 merged with a result that puts INSTITUTIONAL
\* before MIXER_REJECT and carries an adjustment of +150 comes back rejected.
C1_Witness ==
    /\ Returned("applyWalletAdjustment")
    /\ input[1].tokenScore.totalScore = 100
    /\ input[1].walletResult.scoreAdjustment = 150
    /\ Len(input[1].walletResult.flags) = 2
    /\ input[1].walletResult.flags[1].flag = "INSTITUTIONAL"
    /\ input[1].walletResult.flags[2].flag = "MIXER_REJECT"
    /\ output[1].totalScore = 0
    /\ output[1].action = "SKIP"

\* C2: every TokenScore returned by scoreToken, and every TokenScore returned
\* by applyWalletAdjustment for a base total in 0..100 and any integer
\* adjustment, has an integer totalScore with 0 <= totalScore <= 100 and
\* maxScore = 100.
C2_TotalInRange ==
    (output # Absent)
    => /\ output[1].totalScore \in 0..100
       /\ output[1].maxScore = 100

\* C2 witness: a merge without mixer flag whose base plus adjustment lies
\* below 0 returns 0 (the lower clamp binds).
C2_Witness ==
    /\ Returned("applyWalletAdjustment")
    /\ ~HasFlag(input[1].walletResult.flags, "MIXER_REJECT")
    /\ input[1].tokenScore.totalScore + input[1].walletResult.scoreAdjustment < 0
    /\ output[1].totalScore = 0

\* C3: applyWalletAdjustment never mutates its input: after every call the
\* TokenScore passed in has the value it had before the call, and an adjusted
\* score derived from a scoreToken result keeps exactly that result's
\* catalysts followed by its own wallet entries, whatever is merged later.
C3_InputNotMutated ==
    \A k \in 1..Len(hist) :
        hist[k].fn = "applyWalletAdjustment"
        => /\ hist[k].after = hist[k].before
           /\ hist[hist[k].arg].fn = "scoreToken"
              => Deref(objs[k], heap).catalysts =
                    hist[hist[k].arg].ret.catalysts
                    \o WalletCatalysts(hist[k].wallet[1].flags)

\* a TokenScore without its explicit timestamp
WithoutScoredAt(tokenScore) == [tokenScore EXCEPT !.scoredAt = 0]

\* the part of a TokenScore that the Age factor does not enter
WithoutAge(tokenScore) ==
    [contractAddress |-> tokenScore.contractAddress,
     chain |-> tokenScore.chain,
     maxScore |-> tokenScore.maxScore,
     pairAddress |-> tokenScore.pairAddress,
     catalysts |-> tokenScore.catalysts,
     others |-> [i \in {1, 2, 3, 4, 6} |-> tokenScore.breakdown[i]]]

WholeDays(pair, at) == (at - pair.pairCreatedAt[1]) \div DaySeconds

WeightList ==
    <<WEIGHTS.liquidity, WEIGHTS.marketCap, WEIGHTS.volume24h,
      WEIGHTS.social, WEIGHTS.age, WEIGHTS.team>>

\* C5: the six configured weights are 25, 20, 20, 15, 10, 10 and sum to 100,
\* and each of the six breakdown entries scoreToken returns carries its
\* factor's weight, a maxScore equal to that weight, and a score within
\* 0..maxScore.
C5_WeightsAndBreakdown ==
    /\ WeightList = <<25, 20, 20, 15, 10, 10>>
    /\ Sum(WeightList) = 100
    /\ Returned("scoreToken")
       => /\ Len(output[1].breakdown) = 6
          /\ \A i \in 1..6 :
                LET b == output[1].breakdown[i]
                IN  /\ b.weight = WeightList[i]
                    /\ b.maxScore = b.weight
                    /\ 0 <= b.score /\ b.score <= b.maxScore

\* C5 witness: a snapshot on which every factor reaches its maximum.
C5_Witness ==
    /\ Returned("scoreToken")
    /\ Scores(output[1].breakdown) = <<25, 20, 20, 15, 10, 10>>

\* the action the README table and spec.md give for a score
ActionTable(score) ==
    CASE score >= 85 -> "HOT"
      [] score >= 70 /\ score <= 84 -> "QUALIFIED"
      [] score >= 50 /\ score <= 69 -> "WATCH"
      [] score <= 49 -> "SKIP"

\* C6: getAction maps every integer score in 0..100 to HOT (>= 85), QUALIFIED
\* (70..84), WATCH (50..69) or SKIP (<= 49), and the action of every
\* TokenScore scoreToken returns is the action of its clamped totalScore.
C6_ActionThresholds ==
    /\ \A score \in 0..100 : getAction(score) = ActionTable(score)
    /\ Returned("scoreToken")
       => output[1].action = ActionTable(output[1].totalScore)

\* C6 witness: scoreToken returns a total on a tier's lower edge.
C6_Witness ==
    /\ Returned("scoreToken")
    /\ output[1].totalScore = 85
    /\ output[1].action = "HOT"

\* spec.md 4.1: the score of the first tier, highest threshold first, whose
\* inclusive lower bound the metric meets; `default` below every threshold
TierOf(metric, thresholds, scores, default) ==
    IF \E i \in 1..Len(thresholds) : metric >= thresholds[i]
    THEN scores[CHOOSE i \in 1..Len(thresholds) :
                    /\ metric >= thresholds[i]
                    /\ \A j \in 1..(i - 1) : metric < thresholds[j]]
    ELSE default

\* the metric of a snapshot field, 0 when the field is absent
MetricOf(field) == IF field = Absent THEN 0 ELSE field[1]

C8_AgeTiers ==
    Returned("scoreToken")
    => LET pair == input[1].pair
           days == getTokenAgeDays(pair, now)
           score == output[1].breakdown[5].score
           unknown == pair.pairCreatedAt \in {Absent, Some(0)}
       IN  /\ (days = -1) <=> unknown
           /\ ~unknown => days = WholeDays(pair, now)
           /\ score = (IF unknown THEN 2
                       ELSE IF days > 180 THEN 10
                       ELSE IF days > 30 THEN 8
                       ELSE IF days > 7 THEN 5
                       ELSE 3)

\* C9: monotonicity of every factor scorer: raising one metric of the scored
\* snapshot (liquidity, market cap or the FDV standing in for it, 24h volume,
\* website count, social-link count) and holding the others fixed, or scoring
\* it at a greater age in days, never lowers that factor's score.
C9_Monotone ==
    Returned("scoreToken")
    => LET pair == input[1].pair
           b == output[1].breakdown
       IN  /\ \A v \in LiquidityValues :
                 (pair.liquidityUsd # Absent /\ v > pair.liquidityUsd[1])
                 => scoreLiquidity([pair EXCEPT !.liquidityUsd = Some(v)]).score
                       >= b[1].score
           /\ \A v \in MarketCapValues :
                 (pair.marketCap # Absent /\ v > pair.marketCap[1])
                 => scoreMarketCap([pair EXCEPT !.marketCap = Some(v)]).score
                       >= b[2].score
           /\ \A v \in MarketCapValues :
                 (pair.marketCap = Absent /\ pair.fdv # Absent /\ v > pair.fdv[1])
                 => scoreMarketCap([pair EXCEPT !.fdv = Some(v)]).score
                       >= b[2].score
           /\ \A v \in VolumeValues :
                 (pair.volH24 # Absent /\ v > pair.volH24[1])
                 => scoreVolume([pair EXCEPT !.volH24 = Some(v)]).score
                       >= b[3].score
           /\ \A v \in 0..(MaxSites + 1) :
                 (pair.websites # Absent /\ v > pair.websites[1])
                 => LET more == [pair EXCEPT !.websites = Some(v)]
                    IN  /\ scoreSocial(more).score >= b[4].score
                        /\ scoreTeam(more).score >= b[6].score
           /\ \A v \in 0..(MaxLinks + 1) :
                 (pair.socials # Absent /\ v > pair.socials[1])
                 => LET more == [pair EXCEPT !.socials = Some(v)]
                    IN  /\ scoreSocial(more).score >= b[4].score
                        /\ scoreTeam(more).score >= b[6].score
           /\ \A t \in Instants :
                 getTokenAgeDays(pair, t) > getTokenAgeDays(pair, now)
                 => scoreAge(pair, t).score >= b[5].score

\* C9 witness: a snapshot scored with a market cap of 999999, one website and
\* three social links, whose market-cap score rises when the market cap is
\* raised by one.
C9_Witness ==
    /\ Returned("scoreToken")
    /\ input[1].pair.marketCap = Some(999999)
    /\ input[1].pair.socials = Some(3)
    /\ input[1].pair.websites = Some(1)
    /\ output[1].breakdown[2].score <
          scoreMarketCap([input[1].pair EXCEPT !.marketCap = Some(1000000)]).score

\* the names of the catalysts of a list, and how often a name occurs in it
Occurrences(cs, name) == Cardinality({k \in 1..Len(cs) : cs[k].name = name})

\* a catalyst list holds `name` exactly once, with `points`, when `guard`
\* holds and not at all otherwise
EmitsIff(cs, name, points, guard) ==
    /\ Occurrences(cs, name) = (IF guard THEN 1 ELSE 0)
    /\ \A k \in 1..Len(cs) : cs[k].name = name => cs[k].points = points

Positive(field) == field # Absent /\ field[1] > 0

\* C10: detectCatalysts emits exactly the rules whose guard holds, each at
\* most once and independently of the others: Volume Momentum +5 iff vol6h >
\* 0, vol24h > 0 and vol6h/vol24h > 0.5; Buy Pressure +3 iff buys > 0, sells
\* > 0 and buys/sells > 2; Multi-Platform Presence +5 iff website+social
\* count >= 4; Price Dump -10 iff 24h price change < -30; Sell Pressure -5
\* iff buys > 0, sells > 0 and sells/buys > 3. A ratio rule never fires when
\* an operand is 0 or absent.
C10_CatalystRules ==
    Returned("scoreToken")
    => LET pair == input[1].pair
           cs == output[1].catalysts
       IN  /\ EmitsIff(cs, "Volume Momentum", 5,
                       /\ Positive(pair.volH6) /\ Positive(pair.volH24)
                       /\ 2 * pair.volH6[1] > pair.volH24[1])
           /\ EmitsIff(cs, "Buy Pressure", 3,
                       /\ Positive(pair.buysH24) /\ Positive(pair.sellsH24)
                       /\ pair.buysH24[1] > 2 * pair.sellsH24[1])
           /\ EmitsIff(cs, "Multi-Platform Presence", 5,
                       MetricOf(pair.websites) + MetricOf(pair.socials) >= 4)
           /\ EmitsIff(cs, "Price Dump", -10,
                       pair.priceChangeH24 # Absent /\ pair.priceChangeH24[1] < -30)
           /\ EmitsIff(cs, "Sell Pressure", -5,
                       /\ Positive(pair.buysH24) /\ Positive(pair.sellsH24)
                       /\ pair.sellsH24[1] > 3 * pair.buysH24[1])
           /\ \A k \in 1..Len(cs) :
                 cs[k].name \in {"Volume Momentum", "Buy Pressure",
                                 "Multi-Platform Presence", "Price Dump",
                                 "Sell Pressure"}

\* C10 witness: buys present and positive with sells 0, a 6h volume with no
\* 24h volume, and a price change of exactly -30: no ratio rule and no dump
\* rule fires, while Multi-Platform Presence does.
C10_Witness ==
    /\ Returned("scoreToken")
    /\ input[1].pair.buysH24 = Some(3)
    /\ input[1].pair.sellsH24 = Some(0)
    /\ input[1].pair.volH6 = Some(2)
    /\ input[1].pair.volH24 = Absent
    /\ input[1].pair.priceChangeH24 = Some(-30)
    /\ Len(output[1].catalysts) = 1
    /\ output[1].catalysts[1].name = "Multi-Platform Presence"

\* C11: for every base TokenScore and every wallet result without
\* MIXER_REJECT, applyWalletAdjustment returns totalScore = base total plus
\* scoreAdjustment clamped to 0..100, the action of that total, and a
\* catalysts list that is the base catalysts followed by exactly one entry per
\* wallet flag, in flag order, named 'Wallet: <flag>' with points equal to the
\* flag's impact.
C11_WalletMerge ==
    (Returned("applyWalletAdjustment")
        /\ ~HasFlag(input[1].walletResult.flags, "MIXER_REJECT"))
    => LET base == input[1].tokenScore
           flags == input[1].walletResult.flags
           sum == base.totalScore + input[1].walletResult.scoreAdjustment
           merged == output[1].catalysts
       IN  /\ output[1].totalScore =
                 (IF sum < 0 THEN 0 ELSE IF sum > 100 THEN 100 ELSE sum)
           /\ output[1].action = ActionTable(output[1].totalScore)
           /\ Len(merged) = Len(base.catalysts) + Len(flags)
           /\ \A k \in 1..Len(base.catalysts) : merged[k] = base.catalysts[k]
           /\ \A k \in 1..Len(flags) :
                 /\ merged[Len(base.catalysts) + k].name = "Wallet: " \o flags[k].flag
                 /\ merged[Len(base.catalysts) + k].points = flags[k].impact

\* C11 witness: a base of 72 that carries catalysts of its own, merged with
\* [SERIAL_CREATOR(-5), NET_POSITIVE(+2)] and adjustment -3, comes back with
\* total 69, action WATCH and the two wallet entries last, in that order.
C11_Witness ==
    /\ Returned("applyWalletAdjustment")
    /\ input[1].tokenScore.totalScore = 72
    /\ Len(input[1].tokenScore.catalysts) > 0
    /\ input[1].walletResult.scoreAdjustment = -3
    /\ Len(input[1].walletResult.flags) = 2
    /\ input[1].walletResult.flags[1].flag = "SERIAL_CREATOR"
    /\ input[1].walletResult.flags[2].flag = "NET_POSITIVE"
    /\ output[1].totalScore = 69
    /\ output[1].action = "WATCH"
    /\ LET n == Len(output[1].catalysts)
       IN  /\ n = Len(input[1].tokenScore.catalysts) + 2
           /\ output[1].catalysts[n - 1].name = "Wallet: SERIAL_CREATOR"
           /\ output[1].catalysts[n - 1].points = -5
           /\ output[1].catalysts[n].name = "Wallet: NET_POSITIVE"
           /\ output[1].catalysts[n].points = 2

(***************************************************************************)
(* Wallet forensics (helius.ts). A transaction is a record type,           *)
(* timestamp (seconds), description; a description is a sequence of        *)
(* one-character strings, so that lower-casing and substring search are    *)
(* computed. The native balance is carried in thousandths of SOL. The two  *)
(* address sets are parameters of the rule engine: the module ships both   *)
(* empty and is extended by adding addresses to them.                      *)
(***************************************************************************)
UpperCase ==
    <<"A", "B", "C", "D", "E", "F", "G", "H", "I", "J", "K", "L", "M",
      "N", "O", "P", "Q", "R", "S", "T", "U", "V", "W", "X", "Y", "Z">>

LowerCase ==
    <<"a", "b", "c", "d", "e", "f", "g", "h", "i", "j", "k", "l", "m",
      "n", "o", "p", "q", "r", "s", "t", "u", "v", "w", "x", "y", "z">>

toLowerCase(s) ==
    [k \in 1..Len(s) |->
        IF \E i \in 1..26 : UpperCase[i] = s[k]
        THEN LowerCase[CHOOSE i \in 1..26 : UpperCase[i] = s[k]]
        ELSE s[k]]

includes(s, sub) ==
    \E i \in 1..(Len(s) - Len(sub) + 1) : SubSeq(s, i, i + Len(sub) - 1) = sub

Tx(type, timestamp, description) ==
    [type |-> type, timestamp |-> timestamp, description |-> description]

\* a percentage kept as the exact fraction num / den
Percent(num, den) == [num |-> num, den |-> den]

\* faulty variant of analyzeDumpPattern: half of the recent transactions is enough
analyzeDumpPatternAtLeastHalf(transactions, clock) ==
    LET sevenDaysAgo == clock - 7 * 24 * 60 * 60
        recentTxns == SelectSeq(transactions, LAMBDA tx : tx.timestamp > sevenDaysAgo)
        sells == SelectSeq(recentTxns,
                    LAMBDA tx : /\ tx.type = "SWAP"
                                /\ includes(toLowerCase(tx.description),
                                            <<"s", "o", "l", "d">>))
        dumpPercent == IF Len(recentTxns) > 0
                       THEN Percent(Len(sells) * 100, Len(recentTxns))
                       ELSE Percent(0, 1)
    IN  [isDumping |-> dumpPercent.num >= 50 * dumpPercent.den /\ Len(sells) >= 3,
         dumpPercent |-> dumpPercent]

\* `clock` is Date.now() / 1000. dumpPercent > 50 is compared as
\* num > 50 * den, which agrees with the floating-point comparison for every
\* list of up to 100 transactions.
analyzeDumpPattern(transactions, clock) ==
    LET sevenDaysAgo == clock - 7 * 24 * 60 * 60
        recentTxns == SelectSeq(transactions, LAMBDA tx : tx.timestamp > sevenDaysAgo)
        sells == SelectSeq(recentTxns,
                    LAMBDA tx : /\ tx.type = "SWAP"
                                /\ includes(toLowerCase(tx.description),
                                            <<"s", "o", "l", "d">>))
        dumpPercent == IF Len(recentTxns) > 0
                       THEN Percent(Len(sells) * 100, Len(recentTxns))
                       ELSE Percent(0, 1)
    IN  [isDumping |-> dumpPercent.num > 50 * dumpPercent.den /\ Len(sells) >= 3,
         dumpPercent |-> dumpPercent]

IsCreate(tx) ==
    \/ tx.type = "CREATE"
    \/ includes(toLowerCase(tx.description), <<"c", "r", "e", "a", "t", "e", "d">>)
    \/ includes(toLowerCase(tx.description),
                <<"i", "n", "i", "t", "i", "a", "l", "i", "z", "e", " ",
                  "m", "i", "n", "t">>)

\* faulty variant of countTokenCreates: only the transaction type is looked at
countTokenCreatesTypeOnly(transactions) ==
    Cardinality({k \in 1..Len(transactions) : transactions[k].type = "CREATE"})

countTokenCreates(transactions) ==
    Cardinality({k \in 1..Len(transactions) : IsCreate(transactions[k])})

\* toFixed(0) of a percentage
toFixed0(p) == (2 * p.num + p.den) \div (2 * p.den)

\* faulty variant of isNetPositive: the dump rule is not consulted
isNetPositiveWhileDumping(nativeBalance, tokenCount, isDumping) ==
    nativeBalance > 1000 /\ tokenCount > 0

\* nativeBalance > 1 (SOL) && tokenCount > 0 && !isDumping
isNetPositive(nativeBalance, tokenCount, isDumping) ==
    nativeBalance > 1000 /\ tokenCount > 0 /\ ~isDumping

\* faulty variant of isClean: positive flags count as signals too
isCleanOnlyWhenEmpty(flags) == Len(flags) = 0

\* faulty variant of isClean: the fallback flag is never pushed
isCleanNever(flags) == FALSE

\* flags.length === 0 || flags.every((f) => f.impact >= 0)
isClean(flags) == Len(flags) = 0 \/ \A k \in 1..Len(flags) : flags[k].impact >= 0

\* the rules after the mixer check, appended to the flags pushed so far
laterFlags(pushed, knownInstitutional, address, fundedBy, nativeBalance, tokenCount, transactions, clock) ==
    LET createCount == countTokenCreates(transactions)
        dump == analyzeDumpPattern(transactions, clock)
        flags ==
            pushed
            \o PushIf(fundedBy \in knownInstitutional \/ address \in knownInstitutional,
                      WalletFlagDetail("INSTITUTIONAL", 8,
                          <<"Linked to known institutional/VC wallet">>))
            \o PushIf(createCount > 5,
                      WalletFlagDetail("SERIAL_CREATOR", -5,
                          <<"Created", createCount,
                            "tokens - serial creator pattern">>))
            \o PushIf(dump.isDumping,
                      WalletFlagDetail("DUMP_ALERT",
                          IF dump.dumpPercent.num > 70 * dump.dumpPercent.den
                          THEN -15 ELSE -10,
                          <<toFixed0(dump.dumpPercent),
                            "% sell transactions in last 7 days">>))
            \o PushIf(isNetPositive(nativeBalance, tokenCount, dump.isDumping),
                      WalletFlagDetail("NET_POSITIVE", 2,
                          <<nativeBalance, "SOL +", tokenCount, "tokens held">>))
    IN  flags \o PushIf(isClean(flags),
                        WalletFlagDetail("WALLET_VERIFIED", 3,
                            <<"No negative signals detected">>))

MixerFlag(fundedBy) ==
    WalletFlagDetail("MIXER_REJECT", -100,
                     <<"Funded by known mixer: " \o fundedBy \o "...">>)

\* faulty variant of generateFlags: the mixer flag does not end the analysis
generateFlagsNoReturn(knownMixers, knownInstitutional, address, fundedBy, nativeBalance, tokenCount, transactions, clock) ==
    laterFlags(PushIf(fundedBy \in knownMixers, MixerFlag(fundedBy)),
               knownInstitutional, address, fundedBy, nativeBalance,
               tokenCount, transactions, clock)

\* the addresses of the model have eight characters, of which
\* fundedBy.slice(0, 8) keeps all
generateFlags(knownMixers, knownInstitutional, address, fundedBy, nativeBalance, tokenCount, transactions, clock) ==
    IF fundedBy \in knownMixers
    THEN <<MixerFlag(fundedBy)>>
    ELSE laterFlags(<<>>, knownInstitutional, address, fundedBy, nativeBalance,
                    tokenCount, transactions, clock)

\* faulty variant of riskLevelOf: any negative flag is looked at before the dump flag
riskLevelOfMediumFirst(flags) ==
    IF HasFlag(flags, "MIXER_REJECT") THEN "CRITICAL"
    ELSE IF \E k \in 1..Len(flags) : flags[k].impact < 0 THEN "MEDIUM"
    ELSE IF \E k \in 1..Len(flags) :
                flags[k].flag = "DUMP_ALERT" /\ flags[k].impact <= -15
         THEN "HIGH"
    ELSE "LOW"

\* faulty variant of riskLevelOf: only a dump flag makes a wallet MEDIUM
riskLevelOfDumpOnly(flags) ==
    IF HasFlag(flags, "MIXER_REJECT") THEN "CRITICAL"
    ELSE IF \E k \in 1..Len(flags) :
                flags[k].flag = "DUMP_ALERT" /\ flags[k].impact <= -15
         THEN "HIGH"
    ELSE IF HasFlag(flags, "DUMP_ALERT") THEN "MEDIUM"
    ELSE "LOW"

riskLevelOf(flags) ==
    IF HasFlag(flags, "MIXER_REJECT") THEN "CRITICAL"
    ELSE IF \E k \in 1..Len(flags) :
                flags[k].flag = "DUMP_ALERT" /\ flags[k].impact <= -15
         THEN "HIGH"
    ELSE IF \E k \in 1..Len(flags) : flags[k].impact < 0 THEN "MEDIUM"
    ELSE "LOW"

RECURSIVE JoinFlags(_, _)
\* flags.map((f) => f.flag).join(", "), from position k on
JoinFlags(flags, k) ==
    IF k > Len(flags) THEN ""
    ELSE IF k = Len(flags) THEN flags[k].flag
    ELSE flags[k].flag \o ", " \o JoinFlags(flags, k + 1)

summaryOf(riskLevel, flags) ==
    IF riskLevel = "CRITICAL" THEN "CRITICAL: Mixer-funded deployer. AUTO-REJECT."
    ELSE IF riskLevel = "HIGH"
         THEN "HIGH RISK: " \o JoinFlags(flags, 1) \o ". Manual review required."
    ELSE IF riskLevel = "MEDIUM"
         THEN "MEDIUM RISK: " \o JoinFlags(flags, 1) \o ". Proceed with caution."
    ELSE "LOW RISK: " \o JoinFlags(flags, 1) \o ". Wallet appears clean."

\* faulty variant of Impacts: bonuses are left out of the adjustment
ImpactsOfPenalties(flags) == [k \in 1..Len(flags) |-> Min(0, flags[k].impact)]

Impacts(flags) == [k \in 1..Len(flags) |-> flags[k].impact]

\* analyzeWallet once its three lookups have been fulfilled with `balances`,
\* `transactions` and `fundedBy`
analyzeWallet(knownMixers, knownInstitutional, deployerAddress, balances, transactions, fundedBy, clock) ==
    LET flags == generateFlags(knownMixers, knownInstitutional, deployerAddress,
                               fundedBy, balances.nativeBalance,
                               balances.tokenCount, transactions, clock)
        riskLevel == riskLevelOf(flags)
    IN  [deployerAddress |-> deployerAddress,
         chain |-> "solana",
         fundedBy |-> fundedBy,
         nativeBalance |-> balances.nativeBalance,
         tokenCount |-> balances.tokenCount,
         recentTransactions |-> Len(transactions),
         flags |-> flags,
         scoreAdjustment |-> Sum(Impacts(flags)),
         riskLevel |-> riskLevel,
         analyzedAt |-> clock,
         summary |-> summaryOf(riskLevel, flags)]

(***************************************************************************)
(* SpecWallet: one run of the forensics rules on lookup results drawn from *)
(* bounded sets.                                                           *)
(***************************************************************************)
\* recent sell transactions in one history
MaxSells == 4

\* recent swaps that are not sells in one history
MaxOthers == 3

Repeat(x, n) == [k \in 1..n |-> x]

WalletClock == Created + 200 * DaySeconds

SoldText == <<"S", "o", "l", "d", " ", "1", "k">>

\* a sell one second inside the trailing seven days
RecentSell == Tx("SWAP", WalletClock - 7 * DaySeconds + 1, SoldText)

\* a sell exactly seven days old
EdgeSell == Tx("SWAP", WalletClock - 7 * DaySeconds, SoldText)

RecentBuy == Tx("SWAP", WalletClock - 3600, <<"b", "o", "u", "g", "h", "t">>)

\* a transfer whose description speaks of a sale, stamped a few seconds
\* ahead of the local clock
RecentTransfer == Tx("TRANSFER", WalletClock + 5, <<"s", "o", "l", "d">>)

\* creations older than seven days: by type, and by either description
TypedCreate == Tx("CREATE", 0, <<>>)

DescribedCreates ==
    <<Tx("UNKNOWN", 0, <<"T", "o", "k", "e", "n", " ", "C", "R", "E", "A", "T", "E", "D">>),
      Tx("UNKNOWN", 0, <<"I", "n", "i", "t", "i", "a", "l", "i", "z", "e", " ",
                         "M", "i", "n", "t">>)>>

\* (recent sells, recent buys): every mix up to the bounds, 7 of 10 (70%
\* exactly) and 8 of 11
TxCounts == ((0..MaxSells) \X (0..MaxOthers)) \cup {<<7, 3>>, <<8, 3>>}

WalletTxns ==
    {Repeat(RecentSell, n[1]) \o Repeat(RecentBuy, n[2]) \o transfer \o edge
        \o Repeat(TypedCreate, c) \o described :
        n \in TxCounts,
        transfer \in {<<>>, <<RecentTransfer>>},
        edge \in {<<>>, Repeat(EdgeSell, 3)},
        c \in {0, 4, 5, 6},
        described \in {<<>>, DescribedCreates}}

\* (thousandths of SOL, tokens held)
WalletBalances ==
    {[nativeBalance |-> b[1], tokenCount |-> b[2]] :
        b \in {<<0, 0>>, <<1000, 2>>, <<1001, 2>>, <<5000, 2>>, <<5000, 0>>}}

\* deployer and funding source, with and without an entry of either set
WalletParties ==
    {[knownMixers |-> m, knownInstitutional |-> i,
      deployerAddress |-> p[1], fundedBy |-> p[2]] :
        m \in {{}, {"1mixer11"}},
        i \in {{}, {"1vc11111"}},
        p \in {<<"1deploy1", "UNKNOWN">>, <<"1deploy1", "1mixer11">>,
               <<"1deploy1", "1vc11111">>, <<"1vc11111", "1funder1">>,
               <<"1vc11111", "1mixer11">>}}

WalletInput(parties, balances, transactions) ==
    [fn |-> "analyzeWallet", parties |-> parties, balances |-> balances,
     transactions |-> transactions]

InitWallet ==
    /\ Idle
    /\ now = WalletClock
    /\ heap = <<>>
    /\ objs = <<>>
    /\ hist = <<>>
    /\ output = Absent
    /\ input \in {Some(WalletInput(p, b, t)) :
                    p \in WalletParties, b \in WalletBalances, t \in WalletTxns}

CallAnalyzeWallet ==
    /\ input # Absent /\ output = Absent
    /\ input[1].fn = "analyzeWallet"
    /\ output' = Some(analyzeWallet(input[1].parties.knownMixers,
                                    input[1].parties.knownInstitutional,
                                    input[1].parties.deployerAddress,
                                    input[1].balances, input[1].transactions,
                                    input[1].parties.fundedBy, now))
    /\ UNCHANGED <<now, heap, objs, hist, input, phase, net, said, settled>>

NextWallet == CallAnalyzeWallet

SpecWallet == InitWallet /\ [][NextWallet]_vars

\* the flag names of a list, in order
Names(flags) == [k \in 1..Len(flags) |-> flags[k].flag]

MixerFunded == input[1].parties.fundedBy \in input[1].parties.knownMixers

\* C12: when the funding source is in the mixer address set, the engine emits
\* exactly one flag, MIXER_REJECT with impact -100, and no flag of any later
\* rule even where that rule's condition holds; the result has
\* scoreAdjustment -100 and riskLevel CRITICAL.
C12_MixerShortCircuit ==
    (Returned("analyzeWallet") /\ MixerFunded)
    => /\ Names(output[1].flags) = <<"MIXER_REJECT">>
       /\ output[1].flags[1].impact = -100
       /\ output[1].scoreAdjustment = -100
       /\ output[1].riskLevel = "CRITICAL"

\* C12 witness: a mixer-funded deployer that is itself in the institutional
\* set, holds 5 SOL and 2 tokens and has 8 creation transactions and 4 sells
\* out of 4 recent transactions gets the single flag.
C12_Witness ==
    /\ Returned("analyzeWallet")
    /\ MixerFunded
    /\ input[1].parties.deployerAddress \in input[1].parties.knownInstitutional
    /\ input[1].balances = [nativeBalance |-> 5000, tokenCount |-> 2]
    /\ countTokenCreates(input[1].transactions) = 8
    /\ analyzeDumpPattern(input[1].transactions, now).isDumping
    /\ Len(output[1].flags) = 1
    /\ output[1].flags[1].flag = "MIXER_REJECT"
    /\ output[1].riskLevel = "CRITICAL"

FlagImpact(flags, name) == {flags[k].impact : k \in {j \in 1..Len(flags) : flags[j].flag = name}}

FlagCount(flags, name) == Cardinality({k \in 1..Len(flags) : flags[k].flag = name})

\* the flags pushed by the rules before the fallback
EarlierFlags(flags) ==
    SelectSeq(flags, LAMBDA f : f.flag # "WALLET_VERIFIED")

\* C13: for every non-mixer wallet input, WALLET_VERIFIED (+3) is emitted, as
\* the last flag, iff none of the flags of the earlier rules has negative
\* impact (neither SERIAL_CREATOR nor DUMP_ALERT fired): both when no earlier
\* flag fired and when only INSTITUTIONAL and/or NET_POSITIVE fired.
C13_VerifiedFallback ==
    (Returned("analyzeWallet") /\ ~MixerFunded)
    => LET flags == output[1].flags
           earlier == EarlierFlags(flags)
           verified == HasFlag(flags, "WALLET_VERIFIED")
       IN  /\ verified <=> \A k \in 1..Len(earlier) : earlier[k].impact >= 0
           /\ verified <=> ~(HasFlag(flags, "SERIAL_CREATOR")
                                \/ HasFlag(flags, "DUMP_ALERT"))
           /\ verified => /\ flags[Len(flags)].flag = "WALLET_VERIFIED"
                          /\ flags[Len(flags)].impact = 3
                          /\ Len(earlier) = Len(flags) - 1
           /\ Len(flags) > 0

\* C13 witness: a wallet that is institutional and net positive, with no
\* negative signal, ends with WALLET_VERIFIED after the two positive flags.
C13_Witness ==
    /\ Returned("analyzeWallet")
    /\ ~MixerFunded
    /\ Names(output[1].flags) = <<"INSTITUTIONAL", "NET_POSITIVE", "WALLET_VERIFIED">>
    /\ output[1].flags[3].impact = 3

\* C14: riskLevel follows the emitted flags in this precedence: CRITICAL if
\* MIXER_REJECT is present; otherwise HIGH if a DUMP_ALERT with impact <= -15
\* is present; otherwise MEDIUM if any flag has negative impact
\* (SERIAL_CREATOR, or DUMP_ALERT with -10); otherwise LOW. SERIAL_CREATOR
\* together with a -15 DUMP_ALERT is HIGH.
C14_RiskPrecedence ==
    Returned("analyzeWallet")
    => LET flags == output[1].flags
           risk == output[1].riskLevel
           mixer == HasFlag(flags, "MIXER_REJECT")
           heavyDump == \E i \in FlagImpact(flags, "DUMP_ALERT") : i <= -15
           negative == HasFlag(flags, "SERIAL_CREATOR")
                          \/ (-10) \in FlagImpact(flags, "DUMP_ALERT")
       IN  /\ risk \in {"CRITICAL", "HIGH", "MEDIUM", "LOW"}
           /\ risk = "CRITICAL" <=> mixer
           /\ risk = "HIGH" <=> (~mixer /\ heavyDump)
           /\ risk = "MEDIUM" <=> (~mixer /\ ~heavyDump /\ negative)
           /\ risk = "LOW" <=> \A k \in 1..Len(flags) : flags[k].impact >= 0

\* C14 witness: a wallet with SERIAL_CREATOR and a DUMP_ALERT of -15 is HIGH.
C14_Witness ==
    /\ Returned("analyzeWallet")
    /\ Names(output[1].flags) = <<"SERIAL_CREATOR", "DUMP_ALERT">>
    /\ output[1].flags[2].impact = -15
    /\ output[1].riskLevel = "HIGH"

\* the transactions of the call that are not older than seven days
RecentSet ==
    {k \in 1..Len(input[1].transactions) :
        input[1].transactions[k].timestamp > now - 7 * DaySeconds}

\* the recent swaps whose description contains 'sold' in any letter case
SellSet ==
    {k \in RecentSet :
        /\ input[1].transactions[k].type = "SWAP"
        /\ includes(toLowerCase(input[1].transactions[k].description),
                    <<"s", "o", "l", "d">>)}

DumpFires ==
    /\ Cardinality(SellSet) >= 3
    /\ Cardinality(SellSet) * 100 > 50 * Cardinality(RecentSet)

\* C15: for a wallet that is not mixer-funded, with recent = the transactions
\* stamped within the trailing 7 days and sells = the recent SWAP
\* transactions whose description contains 'sold', DUMP_ALERT is emitted iff
\* sells >= 3 and sells*100 > 50*|recent|; its impact is -15 iff
\* sells*100 > 70*|recent| and -10 otherwise; without recent transactions the
\* rule does not fire; transactions older than 7 days never count.
C15_DumpRule ==
    (Returned("analyzeWallet") /\ ~MixerFunded)
    => LET flags == output[1].flags
           sells == Cardinality(SellSet)
           recent == Cardinality(RecentSet)
       IN  /\ HasFlag(flags, "DUMP_ALERT") <=> DumpFires
           /\ DumpFires =>
                 FlagImpact(flags, "DUMP_ALERT") =
                    {IF sells * 100 > 70 * recent THEN -15 ELSE -10}
           /\ recent = 0 => ~HasFlag(flags, "DUMP_ALERT")
           /\ FlagCount(flags, "DUMP_ALERT") <= 1

\* C15 witness: 7 sells among 10 recent transactions (70% exactly), next to
\* three sells that are exactly seven days old, give a DUMP_ALERT of -10.
C15_Witness ==
    /\ Returned("analyzeWallet")
    /\ ~MixerFunded
    /\ Cardinality(SellSet) = 7
    /\ Cardinality(RecentSet) = 10
    /\ Len(SelectSeq(input[1].transactions, LAMBDA tx : tx = EdgeSell)) = 3
    /\ FlagImpact(output[1].flags, "DUMP_ALERT") = {-10}

\* the creation transactions of the call
CreateSet ==
    {k \in 1..Len(input[1].transactions) :
        LET tx == input[1].transactions[k]
            text == toLowerCase(tx.description)
        IN  \/ tx.type = "CREATE"
            \/ includes(text, <<"c", "r", "e", "a", "t", "e", "d">>)
            \/ includes(text, <<"i", "n", "i", "t", "i", "a", "l", "i", "z", "e",
                                " ", "m", "i", "n", "t">>)}

InstitutionalLinked ==
    \/ input[1].parties.fundedBy \in input[1].parties.knownInstitutional
    \/ input[1].parties.deployerAddress \in input[1].parties.knownInstitutional

ScenarioDInput ==
    /\ Cardinality(CreateSet) = 8
    /\ ~DumpFires
    /\ input[1].balances = [nativeBalance |-> 5000, tokenCount |-> 2]
    /\ ~InstitutionalLinked

\* C16: for every non-mixer wallet, SERIAL_CREATOR (-5) is emitted iff the
\* number of creation transactions (type CREATE, or description containing
\* 'created' or 'initialize mint' in any letter case) is greater than 5; a
\* wallet with 8 creation transactions, no dump pattern, balance 5 and 2 held
\* tokens, not linked to an institutional address, yields exactly
\* [SERIAL_CREATOR(-5), NET_POSITIVE(+2)], scoreAdjustment -3 and riskLevel
\* MEDIUM, without WALLET_VERIFIED.
C16_SerialCreator ==
    (Returned("analyzeWallet") /\ ~MixerFunded)
    => LET flags == output[1].flags
       IN  /\ HasFlag(flags, "SERIAL_CREATOR") <=> Cardinality(CreateSet) > 5
           /\ FlagImpact(flags, "SERIAL_CREATOR") \subseteq {-5}
           /\ FlagCount(flags, "SERIAL_CREATOR") <= 1
           /\ ScenarioDInput =>
                 /\ Names(flags) = <<"SERIAL_CREATOR", "NET_POSITIVE">>
                 /\ Impacts(flags) = <<-5, 2>>
                 /\ output[1].scoreAdjustment = -3
                 /\ output[1].riskLevel = "MEDIUM"

\* C16 witness: Scenario D, six creations by type and two by description
C16_Witness ==
    /\ Returned("analyzeWallet")
    /\ ~MixerFunded
    /\ ScenarioDInput
    /\ Cardinality({k \in CreateSet : input[1].transactions[k].type = "CREATE"}) = 6
    /\ Names(output[1].flags) = <<"SERIAL_CREATOR", "NET_POSITIVE">>
    /\ output[1].scoreAdjustment = -3
    /\ output[1].riskLevel = "MEDIUM"

\* C17: NET_POSITIVE (+2) is emitted iff the wallet is not mixer-funded, the
\* dump rule did not fire, the native balance is above 1 and the held-token
\* count is above 0; no flag list holds both NET_POSITIVE and DUMP_ALERT.
C17_NetPositive ==
    Returned("analyzeWallet")
    => LET flags == output[1].flags
       IN  /\ HasFlag(flags, "NET_POSITIVE")
                 <=> /\ ~MixerFunded
                     /\ ~DumpFires
                     /\ input[1].balances.nativeBalance > 1000
                     /\ input[1].balances.tokenCount > 0
           /\ FlagImpact(flags, "NET_POSITIVE") \subseteq {2}
           /\ ~(HasFlag(flags, "NET_POSITIVE") /\ HasFlag(flags, "DUMP_ALERT"))

\* C17 witness: a wallet holding 5 SOL and 2 tokens whose dump rule fires
\* gets DUMP_ALERT and no NET_POSITIVE.
C17_Witness ==
    /\ Returned("analyzeWallet")
    /\ ~MixerFunded
    /\ input[1].balances = [nativeBalance |-> 5000, tokenCount |-> 2]
    /\ HasFlag(output[1].flags, "DUMP_ALERT")
    /\ ~HasFlag(output[1].flags, "NET_POSITIVE")

(***************************************************************************)
(* The three lookups of analyzeWallet. Each lookup is a fetch followed,    *)
(* for an OK response, by the reading of the body; what follows a          *)
(* response (the lookup's continuation, the reaction of Promise.all and    *)
(* the rest of analyzeWallet) runs as microtasks before the next response  *)
(* is delivered, and is part of the action that delivers the response.     *)
(***************************************************************************)
\* faulty variant of KNOWN_MIXERS: the set lists an address
KNOWN_MIXERSListed == {"1mixer11"}

\* the address sets as shipped
KNOWN_MIXERS == {}

KNOWN_INSTITUTIONAL == {}

Lookups == {"balances", "transactions", "funding"}

\* the state of a lookup's promise; `failed` tells that its request failed
Request(state, value, error, failed) ==
    [state |-> state, value |-> value, error |-> error, failed |-> failed]

Pending == Request("pending", Absent, Absent, FALSE)

Reading == Request("reading", Absent, Absent, FALSE)

Fulfilled(v) == Request("fulfilled", Some(v), Absent, FALSE)

Rejected(error) == Request("rejected", Absent, Some(error), TRUE)

IsSettled(r) == r.state \in {"fulfilled", "rejected"}

\* faulty variant of lookupFailure: findFundingSource without its try / catch
lookupFailureAlwaysThrows(l, error) == Rejected(error)

\* what a lookup settles to when its request fails: getBalances and
\* getTransactions throw, findFundingSource returns "UNKNOWN"
lookupFailure(l, error) ==
    IF l = "funding"
    THEN Request("fulfilled", Some("UNKNOWN"), Absent, TRUE)
    ELSE Rejected(error)

\* the balances body: nativeBalance in units of 10^6 lamports, so that the
\* division by 1e9 gives thousandths of SOL; tokens is the array's length
getBalances(data) ==
    [nativeBalance |-> OrElse(data.nativeBalance, 0),
     tokenCount |-> OrElse(data.tokens, 0)]

\* `x || d` for a string field
OrDefault(o, d) == IF o = Absent \/ o = Some("") THEN d ELSE o[1]

getTransactions(txns) ==
    LET list == OrElse(txns, <<>>)
    IN  [k \in 1..Len(list) |->
            Tx(OrDefault(list[k].type, "UNKNOWN"),
               OrElse(list[k].timestamp, 0),
               OrElse(list[k].description, <<>>))]

\* the sender of the earliest transaction that moved SOL to `address`
findFundingSource(txns, address) ==
    LET list == OrElse(txns, <<>>)
        transfers(tx) == OrElse(tx.nativeTransfers, <<>>)
        IsIncoming(tx) ==
            \E k \in 1..Len(transfers(tx)) :
                /\ transfers(tx)[k].toUserAccount = address
                /\ transfers(tx)[k].amount > 0
        incoming == SelectSeq(list, IsIncoming)
        stamp(i) == OrElse(incoming[i].timestamp, 0)
        first == CHOOSE i \in 1..Len(incoming) :
                    \A j \in 1..Len(incoming) :
                        stamp(i) < stamp(j) \/ (stamp(i) = stamp(j) /\ i <= j)
        toAddress == SelectSeq(transfers(incoming[first]),
                               LAMBDA t : t.toUserAccount = address)
    IN  IF Len(incoming) > 0
        THEN OrDefault(toAddress[1].fromUserAccount, "UNKNOWN")
        ELSE "UNKNOWN"

\* what a lookup returns for the body of an OK response
lookupResult(l, body, address) ==
    IF l = "balances" THEN getBalances(body)
    ELSE IF l = "transactions" THEN getTransactions(body)
    ELSE findFundingSource(body, address)

\* the promise of analyzeWallet after a lookup has settled: Promise.all
\* rejects with the first rejection and is fulfilled once all three lookups
\* are; a settled promise stays as it is
analyzeWalletSettled(promise, requests, address, clock) ==
    IF promise # Absent THEN promise
    ELSE IF \E l \in Lookups : requests[l].state = "rejected"
         THEN LET l == CHOOSE x \in Lookups : requests[x].state = "rejected"
              IN  Some(Rejected(requests[l].error[1]))
    ELSE IF \A l \in Lookups : requests[l].state = "fulfilled"
         THEN Some(Fulfilled(analyzeWallet(KNOWN_MIXERS, KNOWN_INSTITUTIONAL,
                                           address,
                                           requests["balances"].value[1],
                                           requests["transactions"].value[1],
                                           requests["funding"].value[1], clock)))
    ELSE Absent

Deployer == "1deploy1"

Transfer(from, to, amount) ==
    [fromUserAccount |-> from, toUserAccount |-> to, amount |-> amount]

RawTx(type, timestamp, description, nativeTransfers) ==
    [type |-> type, timestamp |-> timestamp, description |-> description,
     nativeTransfers |-> nativeTransfers]

BalanceBodies ==
    {[nativeBalance |-> Absent, tokens |-> Absent],
     [nativeBalance |-> Some(5000), tokens |-> Some(2)]}

\* no body, and eight creations of which one lacks every field but the type
TransactionBodies ==
    {Absent,
     Some(Repeat(RawTx(Some("CREATE"), Some(WalletClock - 60), Some(<<>>), Absent), 7)
          \o <<RawTx(Some("CREATE"), Absent, Absent, Absent)>>)}

\* no incoming transfer; one; and a later one listed before the earliest
FundingBodies ==
    {Some(<<RawTx(Some("TRANSFER"), Some(50), Absent,
                  Some(<<Transfer(Some(Deployer), "1other11", 7)>>))>>),
     Some(<<RawTx(Some("TRANSFER"), Some(50), Absent,
                  Some(<<Transfer(Some("1funder1"), Deployer, 7)>>))>>),
     Some(<<RawTx(Some("TRANSFER"), Some(90), Absent,
                  Some(<<Transfer(Some("1later11"), Deployer, 1)>>)),
            RawTx(Some("TRANSFER"), Some(50), Absent,
                  Some(<<Transfer(Some("1funder1"), "1other11", 3),
                         Transfer(Some("1early11"), Deployer, 2)>>))>>)}

Bodies(l) ==
    IF l = "balances" THEN BalanceBodies
    ELSE IF l = "transactions" THEN TransactionBodies
    ELSE FundingBodies

(***************************************************************************)
(* SpecLookups: one call of analyzeWallet, its three requests answered in  *)
(* any order, each with any outcome. hist lists the lookups in the order   *)
(* in which they settled.                                                  *)
(***************************************************************************)
InitLookups ==
    /\ now = WalletClock
    /\ heap = <<>>
    /\ objs = <<>>
    /\ hist = <<>>
    /\ input = Some([fn |-> "analyzeWallet", deployerAddress |-> Deployer])
    /\ output = Absent
    /\ Idle

\* analyzeWallet runs up to its await: the three lookups are called one
\* after the other, and each runs up to its fetch
StartAnalyzeWallet ==
    /\ phase = "idle"
    /\ phase' = "awaiting"
    /\ net' = [l \in Lookups |-> Pending]
    /\ UNCHANGED <<now, heap, objs, hist, input, output, said, settled>>

\* lookup l moves to `request`; when that settles it, the continuation of
\* analyzeWallet runs
Deliver(l, request) ==
    /\ net' = [net EXCEPT ![l] = request]
    /\ hist' = IF IsSettled(request) THEN Append(hist, l) ELSE hist
    /\ settled' = analyzeWalletSettled(settled, net', input[1].deployerAddress, now)
    /\ phase' = IF settled' # Absent THEN "done" ELSE phase
    /\ UNCHANGED <<now, heap, objs, input, output, said>>

\* the response to the fetch of lookup l arrives, OK or not
FetchResponds(l, ok) ==
    /\ phase # "idle" /\ net[l].state = "pending"
    /\ Deliver(l, IF ok THEN Reading
                  ELSE lookupFailure(l, "Helius " \o l \o " failed: 429"))

\* the fetch of lookup l fails
FetchThrows(l) ==
    /\ phase # "idle" /\ net[l].state = "pending"
    /\ Deliver(l, lookupFailure(l, "fetch failed"))

\* the body of lookup l has been read and parsed
BodyArrives(l, body) ==
    /\ phase # "idle" /\ net[l].state = "reading"
    /\ Deliver(l, Fulfilled(lookupResult(l, body, input[1].deployerAddress)))

\* the body of lookup l cannot be read or parsed
BodyThrows(l) ==
    /\ phase # "idle" /\ net[l].state = "reading"
    /\ Deliver(l, lookupFailure(l, "Unexpected end of JSON input"))

NextLookups ==
    \/ StartAnalyzeWallet
    \/ \E l \in Lookups, ok \in BOOLEAN : FetchResponds(l, ok)
    \/ \E l \in Lookups : FetchThrows(l)
    \/ \E l \in Lookups : \E body \in Bodies(l) : BodyArrives(l, body)
    \/ \E l \in Lookups : BodyThrows(l)

SpecLookups == InitLookups /\ [][NextLookups]_vars

\* C18: analyzeWallet issues the balance, transaction-history and
\* funding-source lookups together; in every completion order and for every
\* combination of failures it produces a result iff the balance and the
\* transaction lookup both succeed. A failed funding-source lookup (non-OK
\* response or thrown error) never aborts: the result has fundedBy UNKNOWN.
\* As soon as the balance or the transaction lookup fails, analyzeWallet
\* fails without any result, whatever the other lookups did before.
C18_LookupFailures ==
    (phase # "idle")
    => LET balances == net["balances"]
           transactions == net["transactions"]
           funding == net["funding"]
           aborted == balances.state = "rejected" \/ transactions.state = "rejected"
           allSettled == \A l \in Lookups : IsSettled(net[l])
       IN  /\ funding.state # "rejected"
           /\ funding.failed => funding.value = Some("UNKNOWN")
           /\ aborted <=> (settled # Absent /\ settled[1].state = "rejected")
           /\ aborted => settled[1].value = Absent
           /\ (allSettled /\ ~aborted)
                 <=> (settled # Absent /\ settled[1].state = "fulfilled")
           /\ (settled # Absent /\ settled[1].state = "fulfilled")
                 => /\ settled[1].value[1].fundedBy = funding.value[1]
                    /\ settled[1].value[1].nativeBalance = balances.value[1].nativeBalance
                    /\ settled[1].value[1].recentTransactions
                          = Len(transactions.value[1])
                    /\ Len(settled[1].value[1].flags) > 0

\* C18 witness: the funding-source lookup fails first, the other two succeed
\* after it, and the result is produced with fundedBy UNKNOWN.
C18_Witness ==
    /\ hist = <<"funding", "transactions", "balances">>
    /\ net["funding"].failed
    /\ settled # Absent
    /\ settled[1].state = "fulfilled"
    /\ settled[1].value[1].fundedBy = "UNKNOWN"
    /\ settled[1].value[1].recentTransactions = 8
    /\ Names(settled[1].value[1].flags) = <<"SERIAL_CREATOR", "NET_POSITIVE">>

(***************************************************************************)
(* Market-data retrieval (the DexScreener part of helius.ts). A retrieval  *)
(* function is given the outcome of its request and returns the promise    *)
(* it settles to.                                                          *)
(***************************************************************************)
\* the outcome of a request: an OK response with its parsed body, a non-OK
\* response, or an error thrown by fetch or by the parsing of the body
Response(kind, body) == [kind |-> kind, body |-> body]

\* searchTokens: data.pairs || []
searchTokens(resp) ==
    IF resp.kind = "ok" THEN Fulfilled(OrElse(resp.body, <<>>))
    ELSE IF resp.kind = "nonOK" THEN Rejected("DexScreener search failed: 429")
    ELSE Rejected("fetch failed")

\* getTokenPairs: data.pairs || []
getTokenPairs(resp) ==
    IF resp.kind = "ok" THEN Fulfilled(OrElse(resp.body, <<>>))
    ELSE IF resp.kind = "nonOK"
         THEN Rejected("DexScreener token lookup failed: 429")
    ELSE Rejected("fetch failed")

RECURSIVE FirstPairs(_, _)
\* the first pair of every one of the first n token lookups that succeeded
\* with at least one pair; a failed lookup is skipped
FirstPairs(tokens, n) ==
    IF n = 0 THEN <<>>
    ELSE LET found == getTokenPairs(tokens[n].lookup)
             before == FirstPairs(tokens, n - 1)
         IN  IF found.state = "fulfilled" /\ Len(found.value[1]) > 0
             THEN Append(before, found.value[1][1])
             ELSE before

RECURSIVE UniqueTokens(_, _)
\* the first n profiles without repeated chainId:tokenAddress, ten at most
UniqueTokens(profiles, n) ==
    IF n = 0 THEN <<>>
    ELSE LET before == UniqueTokens(profiles, n - 1)
             seen == \E j \in 1..(n - 1) :
                        /\ profiles[j].chainId = profiles[n].chainId
                        /\ profiles[j].tokenAddress = profiles[n].tokenAddress
         IN  IF ~seen /\ Len(before) < 10 THEN Append(before, profiles[n])
             ELSE before

\* the body lists token profiles, each with the outcome of its pair lookup
getTrendingTokens(resp) ==
    IF resp.kind = "ok"
    THEN LET unique == UniqueTokens(resp.body, Len(resp.body))
         IN  Fulfilled(FirstPairs(unique, Len(unique)))
    ELSE IF resp.kind = "nonOK" THEN Rejected("DexScreener trending failed: 429")
    ELSE Rejected("fetch failed")

getBoostedTokens(resp) ==
    IF resp.kind = "ok"
    THEN LET topBoosts == SubSeq(resp.body, 1, Min(10, Len(resp.body)))
         IN  Fulfilled(FirstPairs(topBoosts, Len(topBoosts)))
    ELSE IF resp.kind = "nonOK" THEN Request("fulfilled", Some(<<>>), Absent, TRUE)
    ELSE Rejected("fetch failed")

RECURSIVE UniquePairs(_, _)
\* the first n pairs without repeated pairAddress
UniquePairs(pairs, n) ==
    IF n = 0 THEN <<>>
    ELSE LET before == UniquePairs(pairs, n - 1)
         IN  IF \E j \in 1..(n - 1) : pairs[j].pairAddress = pairs[n].pairAddress
             THEN before
             ELSE Append(before, pairs[n])

\* the options object of scanHighPotential, each field given or not
ScanOptions(minLiquidity, minVolume24h, minMarketCap, chains) ==
    [minLiquidity |-> minLiquidity, minVolume24h |-> minVolume24h,
     minMarketCap |-> minMarketCap, chains |-> chains]

\* what scanHighPotential makes of its two settled lookups: the pairs of the
\* fulfilled ones, trending first, without repeated pairAddress, that meet
\* the minimums; `!chains` holds only for a chain list that was not given
scanPairs(trending, boosted, options) ==
    LET minLiq == OrElse(options.minLiquidity, 100000)
        minVol == OrElse(options.minVolume24h, 50000)
        minMcap == OrElse(options.minMarketCap, 500000)
        chains == options.chains
        allPairs ==
            (IF trending.state = "fulfilled" THEN trending.value[1] ELSE <<>>)
            \o (IF boosted.state = "fulfilled" THEN boosted.value[1] ELSE <<>>)
        unique == UniquePairs(allPairs, Len(allPairs))
    IN  SelectSeq(unique,
            LAMBDA pair :
                /\ OrElse(pair.liquidityUsd, 0) >= minLiq
                /\ OrElse(pair.volH24, 0) >= minVol
                /\ OrElse(pair.marketCap, OrElse(pair.fdv, 0)) >= minMcap
                /\ (chains = Absent \/ pair.chainId \in chains[1]))

\* faulty variant of scanHighPotentialSettled: Promise.all in place of
\* Promise.allSettled
scanHighPotentialAll(trending, boosted, options) ==
    IF trending.state = "rejected" THEN Rejected(trending.error[1])
    ELSE IF boosted.state = "rejected" THEN Rejected(boosted.error[1])
    ELSE Fulfilled(scanPairs(trending, boosted, options))

\* the promise of scanHighPotential(options) once both lookups have settled:
\* Promise.allSettled does not reject, and nothing after it throws
scanHighPotentialSettled(trending, boosted, options) ==
    Fulfilled(scanPairs(trending, boosted, options))

\* the pairs of scanHighPotential({ chains }), the call of the SCAN_TOKENS
\* handler: the minimums are the defaults
scanHighPotential(trending, boosted, chains) ==
    scanPairs(trending, boosted, ScanOptions(Absent, Absent, Absent, chains))

\* pairs.sort((a, b) => (b.liquidity?.usd ?? 0) - (a.liquidity?.usd ?? 0))[0]
bestPairOf(pairs) ==
    pairs[CHOOSE i \in 1..Len(pairs) :
             \A j \in 1..Len(pairs) :
                \/ OrElse(pairs[i].liquidityUsd, 0) > OrElse(pairs[j].liquidityUsd, 0)
                \/ /\ OrElse(pairs[i].liquidityUsd, 0) = OrElse(pairs[j].liquidityUsd, 0)
                   /\ i <= j]

\* faulty variant of batchScore: the scores are left in the order of the pairs
batchScoreUnsorted(pairs, clock) ==
    [k \in 1..Len(pairs) |-> scoreToken(pairs[k], clock)]

RECURSIVE batchScoreFirst(_, _, _)
\* the scores of the first n pairs, highest total first, equal totals in
\* the order of the pairs
batchScoreFirst(pairs, n, clock) ==
    IF n = 0 THEN <<>>
    ELSE LET before == batchScoreFirst(pairs, n - 1, clock)
             score == scoreToken(pairs[n], clock)
             ahead == Cardinality({k \in 1..Len(before) :
                                      before[k].totalScore >= score.totalScore})
         IN  SubSeq(before, 1, ahead) \o <<score>>
                \o SubSeq(before, ahead + 1, Len(before))

batchScore(pairs, clock) == batchScoreFirst(pairs, Len(pairs), clock)

\* a setting or a match that JavaScript reads as true
Truthy(o) == o # Absent /\ o # Some("")

(***************************************************************************)
(* The action handlers (src/src/actions). A run is described by what the   *)
(* handler extracts from the message and reads from the settings; the      *)
(* callback is present. A step returns the part of the state that the      *)
(* handler changes: its position, its requests, the messages passed to     *)
(* the callback, the returned value, the calls made so far (hist) and the  *)
(* score it computed (output).                                             *)
(***************************************************************************)
Run(action, address, heliusKey, solcexUrl, solcexKey, searchQuery, chains) ==
    [action |-> action, address |-> address, heliusKey |-> heliusKey,
     solcexUrl |-> solcexUrl, solcexKey |-> solcexKey,
     searchQuery |-> searchQuery, chains |-> chains]

Msg(text, about) == [text |-> text, about |-> about]

Requests == {"pairs", "wallet", "post", "search", "trending", "boosted"}

Unsent == Request("unsent", Absent, Absent, FALSE)

Handler(position, requests, messages, returned, calls, score) ==
    [phase |-> position, net |-> requests, said |-> messages,
     settled |-> returned, hist |-> calls, output |-> score]

\* callback({ text }) followed by `return value`
Finish(h, text, about, value) ==
    [h EXCEPT !.phase = "done",
              !.said = Append(@, Msg(text, about)),
              !.settled = Some(value)]

\* the request r is sent and the handler waits for it
Await(h, r, position) ==
    [h EXCEPT !.phase = position, !.net = [@ EXCEPT ![r] = Pending]]

FailedText(action) ==
    IF action = "SCORE_TOKEN" THEN "Scoring failed"
    ELSE IF action = "CHECK_WALLET" THEN "Wallet forensics failed"
    ELSE IF action = "SUBMIT_LISTING_INQUIRY" THEN "Listing inquiry failed"
    ELSE "Token scan failed"

NoPairsText(action) ==
    IF action = "CHECK_WALLET" THEN "No pairs found"
    ELSE IF action = "SCAN_TOKENS"
         THEN "No tokens matching the criteria were found"
    ELSE "No trading pairs found"

\* the handler up to its first await
startHandler(run, h) ==
    LET sent == [h EXCEPT !.net = [r \in Requests |-> Unsent]]
    IN  IF run.action = "SCORE_TOKEN"
        THEN IF ~Truthy(run.address)
             THEN Finish(sent, "No valid contract address found", 0, FALSE)
             ELSE Await([sent EXCEPT !.hist = Append(@, "getTokenPairs")],
                        "pairs", "pairs")
        ELSE IF run.action = "CHECK_WALLET"
        THEN IF ~Truthy(run.heliusKey)
             THEN Finish(sent, "HELIUS_API_KEY not configured", 0, FALSE)
             ELSE IF ~Truthy(run.address)
             THEN Finish(sent, "No valid Solana address found", 0, FALSE)
             ELSE Await([sent EXCEPT
                           !.said = Append(@, Msg("Analyzing token", 0)),
                           !.hist = Append(@, "getTokenPairs")],
                        "pairs", "pairs")
        ELSE IF run.action = "SUBMIT_LISTING_INQUIRY"
        THEN IF ~Truthy(run.address)
             THEN Finish(sent, "No valid contract address found", 0, FALSE)
             ELSE Await([sent EXCEPT !.hist = Append(@, "getTokenPairs")],
                        "pairs", "pairs")
        ELSE IF /\ Truthy(run.searchQuery)
                /\ run.searchQuery[1] \notin
                      {"tokens", "promising", "trending", "new", "good"}
             THEN Await([sent EXCEPT !.hist = Append(@, "searchTokens")],
                        "search", "search")
             ELSE Await(Await([sent EXCEPT !.hist = Append(@, "scanHighPotential")],
                              "trending", "scan"),
                        "boosted", "scan")

\* faulty variant of belowMinimum: the bar is at 60 points
belowMinimumAt60(score) == score.totalScore < 60

\* score.totalScore < 70
belowMinimum(score) == score.totalScore < 70

\* the three address handlers once getTokenPairs has settled to `found`
afterPairs(run, h, found, clock) ==
    LET got == [h EXCEPT !.net = [@ EXCEPT !["pairs"] = found]]
    IN  IF found.state = "rejected"
        THEN Finish(got, FailedText(run.action), 0, FALSE)
        ELSE IF Len(found.value[1]) = 0
        THEN Finish(got, NoPairsText(run.action), 0, TRUE)
        ELSE IF run.action = "CHECK_WALLET"
        THEN Await([got EXCEPT !.hist = Append(@, "analyzeWallet")],
                   "wallet", "wallet")
        ELSE LET score == scoreToken(bestPairOf(found.value[1]), clock)
                 scored == [got EXCEPT !.hist = Append(@, "scoreToken"),
                                       !.output = Some(score)]
             IN  IF run.action = "SCORE_TOKEN"
                 THEN Finish(scored, "Score", score.totalScore, TRUE)
                 ELSE IF belowMinimum(score)
                 THEN Finish(scored, "below the 70-point minimum",
                             score.totalScore, TRUE)
                 ELSE IF Truthy(run.solcexUrl) /\ Truthy(run.solcexKey)
                 THEN Await([scored EXCEPT !.hist = Append(@, "POST")],
                            "post", "post")
                 ELSE Finish(scored, "Listing Inquiry Report",
                             score.totalScore, TRUE)

\* CHECK_WALLET once analyzeWallet has settled to `result`
afterWallet(run, h, result, clock) ==
    LET got == [h EXCEPT !.net = [@ EXCEPT !["wallet"] = result]]
    IN  IF result.state = "rejected"
        THEN Finish(got, FailedText(run.action), 0, FALSE)
        ELSE LET baseScore == scoreToken(bestPairOf(h.net["pairs"].value[1]), clock)
                 merged == applyWalletAdjustment(
                              [baseScore EXCEPT !.catalysts = 1],
                              result.value[1], <<baseScore.catalysts>>)
                 adjustedScore == Deref(merged.ret, merged.store)
             IN  Finish([got EXCEPT
                           !.hist = @ \o <<"scoreToken", "applyWalletAdjustment">>,
                           !.output = Some(adjustedScore)],
                        "Wallet Forensics", adjustedScore.totalScore, TRUE)

\* SUBMIT_LISTING_INQUIRY once the POST has been answered: a non-OK
\* response and an error both fall through to the report
afterPost(run, h, resp) ==
    LET answered ==
            IF resp.kind = "ok" THEN Fulfilled(resp.body)
            ELSE Request("fulfilled", Absent, Absent, TRUE)
        got == [h EXCEPT !.net = [@ EXCEPT !["post"] = answered]]
    IN  IF resp.kind = "ok"
        THEN Finish(got, "Listing inquiry submitted", h.output[1].totalScore, TRUE)
        ELSE Finish(got, "Listing Inquiry Report", h.output[1].totalScore, TRUE)

\* SCAN_TOKENS from `pairs.length === 0` on
reportScan(h, pairs, clock) ==
    IF Len(pairs) = 0
    THEN Finish(h, NoPairsText("SCAN_TOKENS"), 0, TRUE)
    ELSE LET scored == batchScore(pairs, clock)
             top == SubSeq(scored, 1, Min(10, Len(scored)))
         IN  Finish([h EXCEPT !.hist = Append(@, "batchScore"),
                              !.output = Some(top)],
                    "SolCex Token Scan", Len(top), TRUE)

\* the pairs of a keyword search that SCAN_TOKENS keeps
searchedPairs(run, found) ==
    LET onChain == IF run.chains = Absent THEN found.value[1]
                   ELSE SelectSeq(found.value[1],
                                  LAMBDA p : p.chainId \in run.chains[1])
    IN  SubSeq(onChain, 1, Min(20, Len(onChain)))

\* SCAN_TOKENS once searchTokens has settled to `found`
afterSearch(run, h, found, clock) ==
    LET got == [h EXCEPT !.net = [@ EXCEPT !["search"] = found]]
    IN  IF found.state = "rejected"
        THEN Finish(got, FailedText(run.action), 0, FALSE)
        ELSE reportScan(got, searchedPairs(run, found), clock)

\* SCAN_TOKENS once one of the two sources of scanHighPotential has settled
\* to `found`; the scan goes on when both have
afterSource(run, h, source, found, clock) ==
    LET got == [h EXCEPT !.net = [@ EXCEPT ![source] = found]]
    IN  IF IsSettled(got.net["trending"]) /\ IsSettled(got.net["boosted"])
        THEN reportScan(got,
                        scanHighPotential(got.net["trending"],
                                          got.net["boosted"], run.chains),
                        clock)
        ELSE got

(***************************************************************************)
(* SpecHandlers: one run of one action handler, its requests answered      *)
(* with any outcome and, for the two sources of a scan, in any order.      *)
(***************************************************************************)
\* Scenario B without links and trade counts after a price drop: 69 points
Pair69 ==
    [ScenarioB EXCEPT !.websites = Absent, !.socials = Absent,
                      !.buysH24 = Absent, !.sellsH24 = Absent,
                      !.priceChangeH24 = Some(-31)]

\* the same with one social link and sells outnumbering buys: 70 points
Pair70 ==
    [Pair69 EXCEPT !.pairAddress = "pairC", !.socials = Some(1),
                   !.buysH24 = Some(1), !.sellsH24 = Some(4)]

Runs ==
    {Run("SCORE_TOKEN", a, Absent, Absent, Absent, Absent, Absent) :
        a \in {Absent, Some("tokenB")}}
    \cup {Run("CHECK_WALLET", a, k, Absent, Absent, Absent, Absent) :
            a \in {Absent, Some("tokenB")}, k \in {Absent, Some("helius-key")}}
    \cup {Run("SUBMIT_LISTING_INQUIRY", a, Absent, u, k, Absent, Absent) :
            a \in {Absent, Some("tokenB")},
            u \in {Absent, Some("https://solcex.example")},
            k \in {Absent, Some(""), Some("solcex-key")}}
    \cup {Run("SCAN_TOKENS", Absent, Absent, Absent, Absent, q, c) :
            q \in {Absent, Some("tokens"), Some("bonk")},
            c \in {Absent, Some({"solana"}), Some({"base"})}}

\* failures, a body without pairs, and pairs on either side of 70 points;
\* the pair with the most liquidity is not listed first
PairResponses ==
    {Response("nonOK", Absent), Response("thrown", Absent),
     Response("ok", Absent), Response("ok", Some(<<>>)),
     Response("ok", Some(<<Pair69>>)), Response("ok", Some(<<Pair70>>)),
     Response("ok", Some(<<BasePair, ScenarioB, ScenarioA>>))}

Profile(chainId, tokenAddress, lookup) ==
    [chainId |-> chainId, tokenAddress |-> tokenAddress, lookup |-> lookup]

\* failures, no profile, and profiles with a repeated token, a token below
\* the minimums and a token whose pair lookup fails
TrendingResponses ==
    {Response("nonOK", <<>>), Response("thrown", <<>>), Response("ok", <<>>),
     Response("ok",
        <<Profile("solana", "tokenB", Response("ok", Some(<<ScenarioB>>))),
          Profile("solana", "tokenA", Response("ok", Some(<<ScenarioA>>))),
          Profile("solana", "tokenB", Response("ok", Some(<<ScenarioB>>))),
          Profile("solana", "tokenD", Response("nonOK", Absent))>>)}

BoostedResponses ==
    {Response("nonOK", <<>>), Response("thrown", <<>>), Response("ok", <<>>),
     Response("ok",
        <<Profile("solana", "tokenB", Response("ok", Some(<<ScenarioB>>))),
          Profile("solana", "tokenC", Response("ok", Some(<<Pair70>>)))>>)}

\* what the funding-source lookup may have found: nothing, the addresses
\* that SpecWallet lists as mixer and as institutional, and the deployer
FundingSources == {"UNKNOWN", "1mixer11", "1vc11111", "tokenB"}

\* how analyzeWallet may settle for the handler
WalletOutcomes ==
    {Rejected("Helius balances failed: 429")}
    \cup {Fulfilled(analyzeWallet(KNOWN_MIXERS, KNOWN_INSTITUTIONAL, "tokenB",
                                  getBalances(b), getTransactions(t), f,
                                  WalletClock)) :
            b \in BalanceBodies, t \in TransactionBodies, f \in FundingSources}

PostResponses ==
    {Response("ok", Some("inquiry-1")), Response("ok", Absent),
     Response("nonOK", Absent), Response("thrown", Absent)}

MaxBatch == 12

\* the k-th pair of a long search result: liquidity, volume and chain vary
\* with k, so that totals differ, repeat and are not in order
BatchPair(k) ==
    [ScenarioB EXCEPT !.pairAddress = "pair" \o ToString(k),
                      !.baseAddress = "token" \o ToString(k),
                      !.chainId = IF k % 4 = 0 THEN "base" ELSE "solana",
                      !.liquidityUsd = Some((k % 5) * 125000),
                      !.volH24 = Some((k % 3) * 500000)]

BatchPairs(n) == [k \in 1..n |-> BatchPair(k)]

\* the answers to a keyword search: those of a pair lookup, and results
\* with more pairs than a scan reports
SearchResponses ==
    PairResponses
    \cup {Response("ok", Some(BatchPairs(n))) : n \in {MaxBatch - 2, MaxBatch}}

InitHandlers ==
    /\ now = WalletClock
    /\ heap = <<>>
    /\ objs = <<>>
    /\ hist = <<>>
    /\ output = Absent
    /\ Idle
    /\ input \in {Some(r) : r \in Runs}

Current == Handler(phase, net, said, settled, hist, output)

Become(h) ==
    /\ phase' = h.phase
    /\ net' = h.net
    /\ said' = h.said
    /\ settled' = h.settled
    /\ hist' = h.hist
    /\ output' = h.output
    /\ UNCHANGED <<now, heap, objs, input>>

StartHandler ==
    /\ phase = "idle"
    /\ Become(startHandler(input[1], Current))

PairsRespond(resp) ==
    /\ phase = "pairs"
    /\ Become(afterPairs(input[1], Current, getTokenPairs(resp), now))

WalletSettles(result) ==
    /\ phase = "wallet"
    /\ Become(afterWallet(input[1], Current, result, now))

PostResponds(resp) ==
    /\ phase = "post"
    /\ Become(afterPost(input[1], Current, resp))

SearchResponds(resp) ==
    /\ phase = "search"
    /\ Become(afterSearch(input[1], Current, searchTokens(resp), now))

TrendingResponds(resp) ==
    /\ phase = "scan" /\ net["trending"].state = "pending"
    /\ Become(afterSource(input[1], Current, "trending", getTrendingTokens(resp), now))

BoostedResponds(resp) ==
    /\ phase = "scan" /\ net["boosted"].state = "pending"
    /\ Become(afterSource(input[1], Current, "boosted", getBoostedTokens(resp), now))

NextHandlers ==
    \/ StartHandler
    \/ \E resp \in PairResponses : PairsRespond(resp)
    \/ \E result \in WalletOutcomes : WalletSettles(result)
    \/ \E resp \in PostResponses : PostResponds(resp)
    \/ \E resp \in SearchResponses : SearchResponds(resp)
    \/ \E resp \in TrendingResponses : TrendingResponds(resp)
    \/ \E resp \in BoostedResponses : BoostedResponds(resp)

SpecHandlers == InitHandlers /\ [][NextHandlers]_vars

\* the market-data requests that the run has made
MarketRequests ==
    IF phase = "idle" THEN {}
    ELSE {r \in {"pairs", "search", "trending", "boosted"} : net[r].state # "unsent"}

\* the run is over and every market-data request it made has failed
RetrievalFailed ==
    /\ phase = "done"
    /\ MarketRequests # {}
    /\ \A r \in MarketRequests : net[r].failed

\* the pairs that the handler tests with `pairs.length === 0`
RetrievedPairs ==
    IF "pairs" \in MarketRequests THEN net["pairs"].value[1]
    ELSE IF "search" \in MarketRequests THEN searchedPairs(input[1], net["search"])
    ELSE scanHighPotential(net["trending"], net["boosted"], input[1].chains)

\* the run is over, no market-data request failed and no pair was retrieved
RetrievalEmpty ==
    /\ phase = "done"
    /\ MarketRequests # {}
    /\ \A r \in MarketRequests : ~net[r].failed
    /\ RetrievedPairs = <<>>

FailureTexts ==
    {"Scoring failed", "Wallet forensics failed", "Listing inquiry failed",
     "Token scan failed"}

NoDataTexts ==
    {"No trading pairs found", "No pairs found",
     "No tokens matching the criteria were found"}

\* C19: every action handler tells 'not found' from 'call failed': a run
\* whose market-data retrieval succeeds without pairs ends by reporting a
\* no-data message and returns true, a run whose market-data retrieval fails
\* ends by reporting a failure message and returns false, and a failed
\* retrieval is never reported as 'no tokens/pairs found'.
C19_FailureVersusNoData ==
    /\ RetrievalEmpty => /\ said[Len(said)].text \in NoDataTexts
                         /\ settled = Some(TRUE)
    /\ RetrievalFailed => /\ said[Len(said)].text \in FailureTexts
                          /\ said[Len(said)].text \notin NoDataTexts
                          /\ settled = Some(FALSE)

Posted == \E k \in 1..Len(hist) : hist[k] = "POST"

\* C20: the SUBMIT_LISTING_INQUIRY handler sends the listing-inquiry POST
\* only after it has scored the token, only if totalScore >= 70 and only if
\* SOLCEX_API_URL and SOLCEX_API_KEY are both set; for a token scoring below
\* 70 it reports the below-minimum message, returns true and issues no POST.
C20_PostOnlyWhenQualified ==
    /\ Posted <=> (phase # "idle" /\ net["post"].state # "unsent")
    /\ Posted =>
          /\ input[1].action = "SUBMIT_LISTING_INQUIRY"
          /\ \E i, j \in 1..Len(hist) :
                i < j /\ hist[i] = "scoreToken" /\ hist[j] = "POST"
          /\ output # Absent
          /\ output[1].totalScore >= 70
          /\ Truthy(input[1].solcexUrl)
          /\ Truthy(input[1].solcexKey)
    /\ (/\ input[1].action = "SUBMIT_LISTING_INQUIRY"
        /\ output # Absent
        /\ output[1].totalScore < 70)
          => /\ phase = "done"
             /\ said[Len(said)].text = "below the 70-point minimum"
             /\ settled = Some(TRUE)
             /\ ~Posted

\* C20 witness: a token scoring exactly 70, with both settings present, has
\* been scored and its POST is outstanding.
C20_Witness ==
    /\ input[1].action = "SUBMIT_LISTING_INQUIRY"
    /\ phase = "post"
    /\ net["post"].state = "pending"
    /\ output # Absent
    /\ output[1].totalScore = 70
    /\ hist = <<"getTokenPairs", "scoreToken", "POST">>

(***************************************************************************)
(* SpecScore: one call of scoreToken on a snapshot whose every field is    *)
(* either absent or set, with trade counts on both sides of the pressure   *)
(* ratios.                                                                 *)
(***************************************************************************)
MaxTrades == 7

TradeCounts == 0..MaxTrades \cup {10, 100}

ScorePairs ==
    {[BasePair EXCEPT !.liquidityUsd = l, !.marketCap = m, !.volH24 = v24,
                      !.volH6 = v6, !.buysH24 = b, !.sellsH24 = sl,
                      !.priceChangeH24 = pc, !.pairCreatedAt = c,
                      !.websites = w, !.socials = sc] :
        l \in Opt({0, 600000}), m \in Opt({12000000}), v24 \in Opt({1200000}),
        v6 \in Opt({700000}), b \in Opt(TradeCounts), sl \in Opt(TradeCounts),
        pc \in Opt({-31, -30}), c \in Opt({Created}),
        w \in Opt({1}), sc \in Opt({3})}
    \cup {ScenarioB}

InitScore ==
    /\ Idle
    /\ now = Created + 200 * DaySeconds
    /\ heap = <<>>
    /\ objs = <<>>
    /\ hist = <<>>
    /\ output = Absent
    /\ input \in {Some(ScoreInput(p)) : p \in ScorePairs}

NextScore == CallScoreToken

SpecScore == InitScore /\ [][NextScore]_vars

\* the sum of the factor scores plus the sum of the catalyst points of a
\* returned TokenScore, before any clamp
RawSum(r) == Sum(Scores(r.breakdown)) + Sum(Points(r.catalysts))

CatalystNames(cs) == [k \in 1..Len(cs) |-> cs[k].name]

\* C21: Scenario B has the factor scores 25, 20, 20, 15, 10, 10, fires Buy
\* Pressure (+3) and Multi-Platform Presence (+5), and is clamped to a total
\* of 100 with action HOT; whenever the factor sum plus the catalyst sum
\* exceeds 100 the total is exactly 100.
C21_ScenarioBClamp ==
    Returned("scoreToken") =>
        LET r == output[1]
        IN  /\ RawSum(r) > 100 => r.totalScore = 100
            /\ input[1].pair = ScenarioB =>
                  /\ Scores(r.breakdown) = <<25, 20, 20, 15, 10, 10>>
                  /\ CatalystNames(r.catalysts)
                        = <<"Buy Pressure", "Multi-Platform Presence">>
                  /\ Points(r.catalysts) = <<3, 5>>
                  /\ RawSum(r) = 108
                  /\ r.totalScore = 100
                  /\ r.action = "HOT"

C21_Witness ==
    /\ Returned("scoreToken")
    /\ input[1].pair = ScenarioB
    /\ RawSum(output[1]) > 100
    /\ output[1].totalScore = 100

\* C26: the lower clamp of scoreToken never binds: the six factor scores sum
\* to at least 19 and the catalyst points to at least -15, so the returned
\* total is the raw sum capped at 100 and lies in 4..100.
C26_LowerClampNeverBinds ==
    Returned("scoreToken") =>
        LET r == output[1]
        IN  /\ Sum(Scores(r.breakdown)) >= 19
            /\ Sum(Points(r.catalysts)) >= -15
            /\ RawSum(r) >= 4
            /\ r.totalScore = Min(100, RawSum(r))
            /\ r.totalScore \in 4..100

\* the lowest factor tiers together with Price Dump and Sell Pressure
C26_Witness ==
    /\ Returned("scoreToken")
    /\ Scores(output[1].breakdown) = <<5, 4, 4, 2, 2, 2>>
    /\ Points(output[1].catalysts) = <<-10, -5>>
    /\ output[1].totalScore = 4

\* C27: detectCatalysts never emits both Buy Pressure and Sell Pressure for
\* one snapshot, and the catalyst points sum to a value in -15..13.
C27_PressureExclusive ==
    Returned("scoreToken") =>
        LET cs == output[1].catalysts
        IN  /\ ~(Occurrences(cs, "Buy Pressure") > 0
                 /\ Occurrences(cs, "Sell Pressure") > 0)
            /\ Sum(Points(cs)) \in -15..13

\* Buy Pressure among the catalysts of a snapshot with sells, at the highest sum
C27_Witness ==
    /\ Returned("scoreToken")
    /\ input[1].pair.sellsH24 # Absent
    /\ input[1].pair.sellsH24 # Some(0)
    /\ Occurrences(output[1].catalysts, "Buy Pressure") = 1
    /\ Sum(Points(output[1].catalysts)) = 13

RECURSIVE ImpactTotal(_)
\* the impacts of a flag list added up from its head
ImpactTotal(flags) ==
    IF flags = <<>> THEN 0 ELSE Head(flags).impact + ImpactTotal(Tail(flags))

\* C22: in every result of analyzeWallet, scoreAdjustment is the sum of the
\* impacts of exactly the flags listed in that result.
C22_AdjustmentIsSum ==
    Returned("analyzeWallet") =>
        output[1].scoreAdjustment = ImpactTotal(output[1].flags)

\* a penalty and a bonus in one result (Scenario D)
C22_Witness ==
    /\ Returned("analyzeWallet")
    /\ Names(output[1].flags) = <<"SERIAL_CREATOR", "NET_POSITIVE">>
    /\ output[1].scoreAdjustment = -3

\* C28: riskLevel is LOW iff the flag list contains WALLET_VERIFIED, and a
\* result with WALLET_VERIFIED holds none of SERIAL_CREATOR, DUMP_ALERT and
\* MIXER_REJECT.
C28_LowIffVerified ==
    Returned("analyzeWallet") =>
        LET flags == output[1].flags
        IN  /\ output[1].riskLevel = "LOW" <=> HasFlag(flags, "WALLET_VERIFIED")
            /\ HasFlag(flags, "WALLET_VERIFIED") =>
                  /\ ~HasFlag(flags, "SERIAL_CREATOR")
                  /\ ~HasFlag(flags, "DUMP_ALERT")
                  /\ ~HasFlag(flags, "MIXER_REJECT")

\* a verified wallet whose transactions hold creations and recent sells below
\* the thresholds of the negative rules
C28_Witness ==
    /\ Returned("analyzeWallet")
    /\ HasFlag(output[1].flags, "WALLET_VERIFIED")
    /\ output[1].riskLevel = "LOW"
    /\ countTokenCreates(input[1].transactions) = 5
    /\ Cardinality(SellSet) >= 2

\* C29: scoreAdjustment is exactly -100 (mixer) or lies in -20..13, and it is
\* never 0.
C29_AdjustmentRange ==
    Returned("analyzeWallet") =>
        LET adj == output[1].scoreAdjustment
        IN  /\ adj = -100 \/ adj \in -20..13
            /\ adj = -100 <=> HasFlag(output[1].flags, "MIXER_REJECT")
            /\ adj # 0

\* the most negative non-mixer combination
C29_Witness ==
    /\ Returned("analyzeWallet")
    /\ Names(output[1].flags) = <<"SERIAL_CREATOR", "DUMP_ALERT">>
    /\ output[1].scoreAdjustment = -20

(***************************************************************************)
(* SpecScan: one call of scanHighPotential. Its two lookups are started    *)
(* together and settle in either order with any outcome.                   *)
(***************************************************************************)
\* a pair just below the default liquidity minimum
PairLowLiquidity ==
    [ScenarioB EXCEPT !.pairAddress = "pairL", !.baseAddress = "tokenL",
                      !.liquidityUsd = Some(99999)]

\* a pair on another chain that is exactly at the three default minimums,
\* its market cap taken from the FDV
PairAtMinimums ==
    [ScenarioB EXCEPT !.pairAddress = "pairE", !.baseAddress = "tokenE",
                      !.chainId = "base", !.liquidityUsd = Some(100000),
                      !.volH24 = Some(50000), !.marketCap = Absent,
                      !.fdv = Some(500000)]

\* a pair with neither market cap nor FDV
PairNoCap ==
    [ScenarioB EXCEPT !.pairAddress = "pairN", !.baseAddress = "tokenN",
                      !.marketCap = Absent, !.fdv = Absent]

\* a pair just below the default volume minimum
PairLowVolume ==
    [ScenarioB EXCEPT !.pairAddress = "pairV", !.baseAddress = "tokenV",
                      !.volH24 = Some(49999)]

\* the pair of Scenario B as the other lookup reports it a moment later
PairBLater == [ScenarioB EXCEPT !.liquidityUsd = Some(700000)]

ListedOK(pair) == Profile(pair.chainId, pair.baseAddress, Response("ok", Some(<<pair>>)))

ScanTrendingResponses ==
    {Response("nonOK", <<>>), Response("thrown", <<>>), Response("ok", <<>>),
     Response("ok", <<ListedOK(ScenarioB), ListedOK(PairLowLiquidity),
                      ListedOK(PairAtMinimums), ListedOK(ScenarioB),
                      Profile("solana", "tokenD", Response("nonOK", Absent))>>)}

ScanBoostedResponses ==
    {Response("nonOK", <<>>), Response("thrown", <<>>), Response("ok", <<>>),
     Response("ok", <<ListedOK(PairBLater), ListedOK(PairNoCap),
                      ListedOK(PairLowVolume), ListedOK(PairAtMinimums)>>)}

\* no options, minimums of 0, a liquidity minimum above every pair, and a
\* chain list that is absent, empty or names one chain
ScanOptionSets ==
    {ScanOptions(l, v, m, c) :
        l \in {Absent, Some(0), Some(700001)}, v \in Opt({0}), m \in Opt({0}),
        c \in Opt({{}, {"solana"}, {"base"}})}

ScanInput(options) == [fn |-> "scanHighPotential", options |-> options]

InitScan ==
    /\ Idle
    /\ now = WalletClock
    /\ heap = <<>>
    /\ objs = <<>>
    /\ hist = <<>>
    /\ output = Absent
    /\ input \in {Some(ScanInput(o)) : o \in ScanOptionSets}

\* Promise.allSettled([getTrendingTokens(), getBoostedTokens()])
StartScan ==
    /\ phase = "idle"
    /\ phase' = "scan"
    /\ net' = [l \in {"trending", "boosted"} |-> Pending]
    /\ UNCHANGED <<now, heap, objs, hist, input, output, said, settled>>

\* one lookup has settled; the rest of scanHighPotential runs once both have
ScanSettle(requests) ==
    /\ net' = requests
    /\ IF IsSettled(requests["trending"]) /\ IsSettled(requests["boosted"])
       THEN /\ phase' = "done"
            /\ settled' = Some(scanHighPotentialSettled(requests["trending"],
                                                        requests["boosted"],
                                                        input[1].options))
       ELSE UNCHANGED <<phase, settled>>
    /\ UNCHANGED <<now, heap, objs, hist, input, output, said>>

ScanTrendingSettles(resp) ==
    /\ phase = "scan" /\ net["trending"].state = "pending"
    /\ ScanSettle([net EXCEPT !["trending"] = getTrendingTokens(resp)])

ScanBoostedSettles(resp) ==
    /\ phase = "scan" /\ net["boosted"].state = "pending"
    /\ ScanSettle([net EXCEPT !["boosted"] = getBoostedTokens(resp)])

NextScan ==
    \/ StartScan
    \/ \E resp \in ScanTrendingResponses : ScanTrendingSettles(resp)
    \/ \E resp \in ScanBoostedResponses : ScanBoostedSettles(resp)

SpecScan == InitScan /\ [][NextScan]_vars

Range(xs) == {xs[k] : k \in 1..Len(xs)}

\* the pairs delivered by the lookups that were fulfilled
SourcePairs ==
    UNION {Range(net[l].value[1]) :
             l \in {l \in {"trending", "boosted"} : net[l].state = "fulfilled"}}

\* the pair passes the minimums and the chain list of the call's options
MeetsOptions(pair) ==
    LET o == input[1].options
        capOrFdv == IF pair.marketCap # Absent THEN pair.marketCap[1]
                    ELSE IF pair.fdv # Absent THEN pair.fdv[1] ELSE 0
    IN  /\ OrElse(pair.liquidityUsd, 0)
              >= (IF o.minLiquidity = Absent THEN 100000 ELSE o.minLiquidity[1])
        /\ OrElse(pair.volH24, 0)
              >= (IF o.minVolume24h = Absent THEN 50000 ELSE o.minVolume24h[1])
        /\ capOrFdv
              >= (IF o.minMarketCap = Absent THEN 500000 ELSE o.minMarketCap[1])
        /\ (o.chains # Absent => pair.chainId \in o.chains[1])

\* C24: scanHighPotential resolves and never rejects, whichever of the
\* trending and boosted lookups fail, using the results of whichever lookup
\* succeeded; its result holds no two pairs with the same pairAddress, and
\* every returned pair has liquidity >= minLiquidity, volume24h >=
\* minVolume24h, marketCap-or-FDV >= minMarketCap (defaults 100000, 50000,
\* 500000) and, when a chain list is given, a chainId in that list.
C24_ScanNeverRejects ==
    /\ ~(phase = "scan" /\ IsSettled(net["trending"]) /\ IsSettled(net["boosted"]))
    /\ phase = "done" =>
          /\ settled # Absent
          /\ settled[1].state = "fulfilled"
          /\ LET result == settled[1].value[1]
             IN  /\ \A i, j \in 1..Len(result) :
                       result[i].pairAddress = result[j].pairAddress => i = j
                 /\ \A k \in 1..Len(result) : MeetsOptions(result[k])
                 /\ Range(result) \subseteq SourcePairs
                 /\ \A p \in SourcePairs :
                       (/\ MeetsOptions(p)
                        /\ \A q \in SourcePairs :
                              q.pairAddress = p.pairAddress => q = p)
                          => p \in Range(result)

\* the trending lookup was rejected and the boosted lookup delivered pairs,
\* of which the call with default options returns two
C24_Witness ==
    /\ phase = "done"
    /\ input[1].options = ScanOptions(Absent, Absent, Absent, Absent)
    /\ net["trending"].state = "rejected"
    /\ net["boosted"].state = "fulfilled"
    /\ settled[1].state = "fulfilled"
    /\ settled[1].value[1] = <<PairBLater, PairAtMinimums>>

\* the SCAN_TOKENS run has reported scored tokens
ScanReported ==
    /\ input[1].action = "SCAN_TOKENS"
    /\ phase = "done"
    /\ output # Absent

Count(xs, x) == Cardinality({k \in 1..Len(xs) : xs[k] = x})

\* C23: batchScore returns one TokenScore per input pair, the same multiset
\* as mapping scoreToken over the input, ordered by totalScore
\* non-increasing; the SCAN_TOKENS handler reports at most the first 10 of
\* them, so no reported token has a lower score than an unreported one.
C23_BatchSortedTopTen ==
    ScanReported =>
        LET pairs == RetrievedPairs
            mapped == [k \in 1..Len(pairs) |-> scoreToken(pairs[k], now)]
            scored == batchScore(pairs, now)
            top == output[1]
        IN  /\ Len(scored) = Len(pairs)
            /\ \A x \in Range(mapped) \cup Range(scored) :
                  Count(mapped, x) = Count(scored, x)
            /\ \A i, j \in 1..Len(scored) :
                  i < j => scored[i].totalScore >= scored[j].totalScore
            /\ Len(top) = Min(10, Len(scored))
            /\ top = SubSeq(scored, 1, Len(top))
            /\ \A i \in 1..Len(top), j \in (Len(top) + 1)..Len(scored) :
                  top[i].totalScore >= scored[j].totalScore

\* a search that found MaxBatch pairs whose totals are not in order: ten are
\* reported, and an unreported one scores less than the last reported one
C23_Witness ==
    /\ ScanReported
    /\ Len(RetrievedPairs) = MaxBatch
    /\ Len(output[1]) = 10
    /\ \E k \in 1..(MaxBatch - 1) :
          scoreToken(RetrievedPairs[k], now).totalScore
             < scoreToken(RetrievedPairs[k + 1], now).totalScore
    /\ \E j \in 11..MaxBatch :
          batchScore(RetrievedPairs, now)[j].totalScore < output[1][10].totalScore

(***************************************************************************)
(* The listing-readiness evaluator. A message text is a sequence of        *)
(* characters; text.includes and the match of /(\d{1,3})\/100/ are computed *)
(* on it.                                                                  *)
(***************************************************************************)
Digits == <<"0", "1", "2", "3", "4", "5", "6", "7", "8", "9">>

IsDigit(c) == \E d \in 1..10 : Digits[d] = c

DigitValue(c) == (CHOOSE d \in 1..10 : Digits[d] = c) - 1

RECURSIVE parseIntFirst(_, _)
\* parseInt of the first n characters of a run of decimal digits
parseIntFirst(ds, n) ==
    IF n = 0 THEN 0 ELSE 10 * parseIntFirst(ds, n - 1) + DigitValue(ds[n])

parseInt(ds) == parseIntFirst(ds, Len(ds))

Per100 ==
    <<"/", "1", "0", "0">>

\* one to three digits at position i, followed by "/100"
ScoreAt(text, i, n) ==
    /\ i + n + Len(Per100) - 1 <= Len(text)
    /\ \A k \in i..(i + n - 1) : IsDigit(text[k])
    /\ SubSeq(text, i + n, i + n + Len(Per100) - 1) = Per100

\* text.match(/(\d{1,3})\/100/): the group of the leftmost match, if any
scoreMatch(text) ==
    LET starts == {i \in 1..Len(text) : \E n \in 1..3 : ScoreAt(text, i, n)}
    IN  IF starts = {} THEN Absent
        ELSE LET i == CHOOSE i \in starts : \A j \in starts : i <= j
                 n == CHOOSE n \in 1..3 : ScoreAt(text, i, n)
             IN  Some(SubSeq(text, i, i + n - 1))

\* scoreMatch ? parseInt(scoreMatch[1]) : 0
evaluatedScore(text) ==
    IF scoreMatch(text) = Absent THEN 0 ELSE parseInt(scoreMatch(text)[1])

WalletVerifiedText ==
    <<"W", "A", "L", "L", "E", "T", "_", "V", "E", "R", "I", "F", "I", "E",
      "D">>

WalletForensicsLower ==
    <<"w", "a", "l", "l", "e", "t", " ", "f", "o", "r", "e", "n", "s", "i",
      "c", "s">>

WalletForensicsTitle ==
    <<"W", "a", "l", "l", "e", "t", " ", "F", "o", "r", "e", "n", "s", "i",
      "c", "s">>

walletChecked(text) ==
    \/ includes(text, WalletVerifiedText)
    \/ includes(text, WalletForensicsLower)
    \/ includes(text, WalletForensicsTitle)

MixerRejectText ==
    <<"M", "I", "X", "E", "R", "_", "R", "E", "J", "E", "C", "T">>

DumpAlertText ==
    <<"D", "U", "M", "P", "_", "A", "L", "E", "R", "T">>

SerialCreatorText ==
    <<"S", "E", "R", "I", "A", "L", "_", "C", "R", "E", "A", "T", "O", "R">>

AutoRejectedText ==
    <<"A", "U", "T", "O", "-", "R", "E", "J", "E", "C", "T", "E", "D">>

hasRedFlags(text) ==
    \/ includes(text, MixerRejectText)
    \/ includes(text, DumpAlertText)
    \/ includes(text, SerialCreatorText)
    \/ includes(text, AutoRejectedText)

REJECTED ==
    "REJECTED - Red flags detected in wallet forensics. Do not proceed with listing inquiry."

READY ==
    "READY - Token scores 85+ with clean wallet. Recommend submitting listing inquiry via SUBMIT_LISTING_INQUIRY."

NEEDS_REVIEW ==
    "NEEDS_REVIEW - Token qualifies (70+) but may need additional verification before outreach."

NEEDS_WALLET_CHECK ==
    "NEEDS_WALLET_CHECK - Token scores 70+ but wallet forensics have not been run. Use CHECK_WALLET first."

NOT_READY ==
    "NOT_READY - Token does not meet minimum criteria for listing inquiry."

\* faulty variant of readinessOf: the score is looked at before the red flags
readinessOfScoreFirst(score, checked, redFlags) ==
    IF score >= 85 /\ checked THEN READY
    ELSE IF redFlags THEN REJECTED
    ELSE IF score >= 70 /\ checked THEN NEEDS_REVIEW
    ELSE IF score >= 70 /\ ~checked THEN NEEDS_WALLET_CHECK
    ELSE NOT_READY

readinessOf(score, checked, redFlags) ==
    IF redFlags THEN REJECTED
    ELSE IF score >= 85 /\ checked THEN READY
    ELSE IF score >= 70 /\ checked THEN NEEDS_REVIEW
    ELSE IF score >= 70 /\ ~checked THEN NEEDS_WALLET_CHECK
    ELSE NOT_READY

\* what the handler stores in `state`
listingReadiness(text) ==
    [listingReadiness |-> readinessOf(evaluatedScore(text), walletChecked(text),
                                      hasRedFlags(text)),
     lastEvaluatedScore |-> evaluatedScore(text),
     walletChecked |-> walletChecked(text)]

(***************************************************************************)
(* SpecReadiness: one run of the evaluator's handler on a message text     *)
(* put together from a score part, a wallet part and a flag part, with or  *)
(* without a state object to store the evaluation in.                      *)
(***************************************************************************)
\* no score, scores around the thresholds, a longer digit run, two scores
\* and a ratio that is not out of 100
ScoreParts ==
    {<<>>,
     <<"S", "c", "o", "r", "e", ":", " ", "6", "9", "/", "1", "0", "0">>,
     <<"S", "c", "o", "r", "e", ":", " ", "7", "0", "/", "1", "0", "0">>,
     <<"s", "c", "o", "r", "e", " ", "8", "4", "/", "1", "0", "0">>,
     <<"8", "5", "/", "1", "0", "0">>,
     <<"1", "0", "0", "/", "1", "0", "0">>,
     <<"1", "0", "8", "5", "/", "1", "0", "0">>,
     <<"7", "0", "/", "1", "0", "0", ",", " ", "9", "0", "/", "1", "0", "0">>,
     <<"8", "5", "/", "1", "0">>}

\* the three wallet markers and spellings that are none of them
WalletParts ==
    {<<>>,
     <<" ", "W", "A", "L", "L", "E", "T", "_", "V", "E", "R", "I", "F", "I",
       "E", "D">>,
     <<" ", "w", "a", "l", "l", "e", "t", " ", "f", "o", "r", "e", "n", "s",
       "i", "c", "s">>,
     <<" ", "W", "a", "l", "l", "e", "t", " ", "F", "o", "r", "e", "n", "s",
       "i", "c", "s", ":">>,
     <<" ", "W", "A", "L", "L", "E", "T", " ", "F", "O", "R", "E", "N", "S",
       "I", "C", "S">>,
     <<" ", "w", "a", "l", "l", "e", "t", "_", "v", "e", "r", "i", "f", "i",
       "e", "d">>}

\* the four red-flag markers and spellings that are none of them
FlagParts ==
    {<<>>,
     <<" ", "M", "I", "X", "E", "R", "_", "R", "E", "J", "E", "C", "T">>,
     <<" ", "D", "U", "M", "P", "_", "A", "L", "E", "R", "T", " ", "(", "-",
       "1", "5", ")">>,
     <<" ", "S", "E", "R", "I", "A", "L", "_", "C", "R", "E", "A", "T", "O",
       "R">>,
     <<" ", "A", "U", "T", "O", "-", "R", "E", "J", "E", "C", "T", "E", "D">>,
     <<" ", "a", "u", "t", "o", "-", "r", "e", "j", "e", "c", "t", "e", "d">>,
     <<" ", "D", "U", "M", "P", " ", "A", "L", "E", "R", "T">>}

ReadinessInput(text, state) ==
    [fn |-> "listingReadinessEvaluator", text |-> text, state |-> state]

InitReadiness ==
    /\ Idle
    /\ now = WalletClock
    /\ heap = <<>>
    /\ objs = <<>>
    /\ hist = <<>>
    /\ output = Absent
    /\ input \in {Some(ReadinessInput(s \o w \o f, state)) :
                    s \in ScoreParts, w \in WalletParts, f \in FlagParts,
                    state \in BOOLEAN}

\* the handler: the evaluation is stored only `if (state)`
EvaluateReadiness ==
    /\ phase = "idle"
    /\ phase' = "done"
    /\ output' = IF input[1].state THEN Some(listingReadiness(input[1].text))
                 ELSE Absent
    /\ UNCHANGED <<now, heap, objs, hist, input, net, said, settled>>

NextReadiness == EvaluateReadiness

SpecReadiness == InitReadiness /\ [][NextReadiness]_vars

Evaluated == input[1].fn = "listingReadinessEvaluator" /\ output # Absent

RedFlagInText ==
    \E marker \in {MixerRejectText, DumpAlertText, SerialCreatorText,
                    AutoRejectedText} : includes(input[1].text, marker)

WalletCheckInText ==
    \E marker \in {WalletVerifiedText, WalletForensicsLower,
                    WalletForensicsTitle} : includes(input[1].text, marker)

\* C25: the evaluator gives red flags precedence over the score: a text
\* containing MIXER_REJECT, DUMP_ALERT, SERIAL_CREATOR or AUTO-REJECTED is
\* REJECTED whatever its score; otherwise it is READY iff score >= 85 with a
\* wallet check, NEEDS_REVIEW iff 70 <= score < 85 with a wallet check,
\* NEEDS_WALLET_CHECK iff score >= 70 without a wallet check, and NOT_READY
\* in every other case. READY is never produced without a wallet check or
\* with a red flag.
C25_ReadinessTable ==
    Evaluated =>
        LET readiness == output[1].listingReadiness
            score == output[1].lastEvaluatedScore
            checked == WalletCheckInText
        IN  /\ output[1].walletChecked = checked
            /\ RedFlagInText => readiness = REJECTED
            /\ ~RedFlagInText =>
                  /\ readiness = READY <=> (score >= 85 /\ checked)
                  /\ readiness = NEEDS_REVIEW
                        <=> (score >= 70 /\ score < 85 /\ checked)
                  /\ readiness = NEEDS_WALLET_CHECK <=> (score >= 70 /\ ~checked)
                  /\ readiness = NOT_READY <=> score < 70
            /\ readiness = READY => (checked /\ ~RedFlagInText)

\* a text with a score of 100, a wallet marker and a red flag is REJECTED
C25_Witness ==
    /\ Evaluated
    /\ output[1].lastEvaluatedScore = 100
    /\ output[1].walletChecked
    /\ RedFlagInText
    /\ output[1].listingReadiness = REJECTED

\* the forensics result that the CHECK_WALLET run has received
WalletReceived == phase # "idle" /\ net["wallet"].state = "fulfilled"

\* C30: with the mixer and institutional address sets as shipped (both
\* empty), no result of analyzeWallet holds MIXER_REJECT or INSTITUTIONAL,
\* whatever the funding source is, its riskLevel is never CRITICAL, and the
\* auto-reject branch of applyWalletAdjustment is never taken for it.
C30_ShippedSetsNeverReject ==
    WalletReceived =>
        LET result == net["wallet"].value[1]
        IN  /\ ~HasFlag(result.flags, "MIXER_REJECT")
            /\ ~HasFlag(result.flags, "INSTITUTIONAL")
            /\ result.riskLevel # "CRITICAL"
            /\ result.scoreAdjustment # -100
            /\ output # Absent
            /\ output[1].recommendation # AutoRejected
            /\ output[1].recommendation = getRecommendation(output[1].action)
            /\ \A k \in 1..Len(output[1].catalysts) :
                  output[1].catalysts[k].points # -100

\* a deployer funded by an address that a mixer list could name, merged
\* into the score without the override
C30_Witness ==
    /\ WalletReceived
    /\ net["wallet"].value[1].fundedBy = "1mixer11"
    /\ hist[Len(hist)] = "applyWalletAdjustment"
    /\ output[1].totalScore > 0

=============================================================================
